---- MODULE Spec2Model ----
(***************************************************************************)
(* A model of the travel planner's data layer and query tools:             *)
(*   src/src/utils/data_loader.py   DataLoader (load_json, clear_cache,    *)
(*                                  get_cache_info)                        *)
(*   src/src/tools/*.py             the five tools' _run methods           *)
(*   src/config/settings.py         paths, coordinates, defaults           *)
(*                                                                         *)
(* Conventions.  Python strings are TLA+ strings.  A JSON value is a       *)
(* record [t, s, n]: t is its type ("str", "int", "float", "null"), s its  *)
(* text when a string, n its number: the integer itself for an int, the    *)
(* number of tenths for a float (JFloat(35) is 3.5), so floats carry one   *)
(* decimal.  A JSON object (a request, a record of a resource) is a        *)
(* function from its keys to JSON values, so an absent key is a key        *)
(* outside its DOMAIN.  A Python exception is a record [exc, msg];         *)
(* exc = "" means no exception.                                            *)
(***************************************************************************)
EXTENDS Integers, Sequences, FiniteSets, TLC

VARIABLES
  doc,    \* the file system: file name -> content of the document
  cache,  \* DataLoader._cache: path string -> parsed data
  res,    \* the outcome of the last operation, as its caller sees it
  callers \* the callers that are inside load_json at the same time, and
          \* which caller's parse produced each cached object

vars == <<doc, cache, res, callers>>

(***************************************************************************)
(* Python string methods                                                   *)
(***************************************************************************)
UpperLetters == "ABCDEFGHIJKLMNOPQRSTUVWXYZ"
LowerLetters == "abcdefghijklmnopqrstuvwxyz"

CharAt(s, i) == SubSeq(s, i, i)

\* str.lower() on one character, as a table over the upper-case letters
LowerTable ==
  [c \in {CharAt(UpperLetters, i) : i \in 1..Len(UpperLetters)} |->
     CharAt(LowerLetters, CHOOSE i \in 1..Len(UpperLetters) : CharAt(UpperLetters, i) = c)]

LowerChar(c) == IF c \in DOMAIN LowerTable THEN LowerTable[c] ELSE c

RECURSIVE lower(_)
\* str.lower()
lower(s) == IF s = "" THEN "" ELSE LowerChar(CharAt(s, 1)) \o lower(SubSeq(s, 2, Len(s)))

RECURSIVE lstrip(_)
lstrip(s) == IF s # "" /\ CharAt(s, 1) = " " THEN lstrip(SubSeq(s, 2, Len(s))) ELSE s

RECURSIVE rstrip(_)
rstrip(s) == IF s # "" /\ CharAt(s, Len(s)) = " " THEN rstrip(SubSeq(s, 1, Len(s) - 1)) ELSE s

\* str.strip()
strip(s) == rstrip(lstrip(s))

UpperTable ==
  [c \in {CharAt(LowerLetters, i) : i \in 1..Len(LowerLetters)} |->
     CharAt(UpperLetters, CHOOSE i \in 1..Len(LowerLetters) : CharAt(LowerLetters, i) = c)]

IsLetter(c) == c \in DOMAIN LowerTable \/ c \in DOMAIN UpperTable

RECURSIVE TitleFrom(_, _)
TitleFrom(s, afterLetter) ==
  IF s = "" THEN ""
  ELSE LET ch == CharAt(s, 1)
           out == IF afterLetter THEN LowerChar(ch)
                  ELSE IF ch \in DOMAIN UpperTable THEN UpperTable[ch] ELSE ch
       IN  out \o TitleFrom(SubSeq(s, 2, Len(s)), IsLetter(ch))

\* str.title()
title(s) == TitleFrom(s, FALSE)

\* str.startswith(prefix)
startswith(s, prefix) == Len(s) >= Len(prefix) /\ SubSeq(s, 1, Len(prefix)) = prefix

\* prefix in s, for the one-character needle the code uses ('T' in str(dep_time))
contains(s, c) == \E i \in 1..Len(s) : CharAt(s, i) = c

(***************************************************************************)
(* JSON values and objects                                                 *)
(***************************************************************************)
JStr(s) == [t |-> "str", s |-> s, n |-> 0]
JInt(n) == [t |-> "int", s |-> "", n |-> n]
JFloat(tenths) == [t |-> "float", s |-> "", n |-> tenths]
JNull   == [t |-> "null", s |-> "", n |-> 0]

NoKeys == [k \in {} |-> JNull]

\* dict.get(key, default)
get(d, key, default) == IF key \in DOMAIN d THEN d[key] ELSE default

\* the Python type name that appears in exception messages
TypeName(v) == CASE v.t = "str" -> "str" [] v.t = "int" -> "int"
                 [] v.t = "float" -> "float" [] OTHER -> "NoneType"

IsNumber(v) == v.t \in {"int", "float"}

\* the value of a number in tenths, the unit in which numbers are compared
Tenths(v) == IF v.t = "float" THEN v.n ELSE 10 * v.n

NoExc == [exc |-> "", msg |-> ""]
Exc(class, msg) == [exc |-> class, msg |-> msg]
AttributeError(v, attr) ==
  Exc("AttributeError", "'" \o TypeName(v) \o "' object has no attribute '" \o attr \o "'")

TypeError(msg) == Exc("TypeError", msg)
ValueError(msg) == Exc("ValueError", msg)

(***************************************************************************)
(* The file system and settings.py's paths                                 *)
(***************************************************************************)
FLIGHTS_PATH == "data/flights.json"
HOTELS_PATH  == "data/hotels.json"
PLACES_PATH  == "data/places.json"

\* another spelling of the flights path, naming the same document
FLIGHTS_ALIAS == "data/../data/flights.json"

Files == {FLIGHTS_PATH, HOTELS_PATH, PLACES_PATH}
PathStrings == Files \cup {FLIGHTS_ALIAS}

\* the document a path string names (what open() and Path.exists() follow)
FileOf(path) == IF path = FLIGHTS_ALIAS THEN FLIGHTS_PATH ELSE path

\* A document is [kind, recs]: "absent" (no such file), "garbage" (text that
\* is not JSON), "null" (the JSON document null), "array" (a JSON array of
\* the objects recs).
AbsentDoc   == [kind |-> "absent",  recs |-> <<>>]
GarbageDoc  == [kind |-> "garbage", recs |-> <<>>]
NullDoc     == [kind |-> "null",    recs |-> <<>>]
ArrayDoc(r) == [kind |-> "array",   recs |-> r]

\* json.load(f): the parsed value of a document that holds JSON
json_load(d) == [kind |-> d.kind, recs |-> d.recs]

\* len(data)
HasLen(data) == data.kind = "array"

NoData == [kind |-> "none", recs |-> <<>>]

(***************************************************************************)
(* DataLoader                                                              *)
(***************************************************************************)
\* load_json without the cache look-up of lines 47-49: every call reads
load_json_uncached(path, c, d) ==
  LET key == path
      file == FileOf(path)
  IN  IF d[file].kind = "absent"
      THEN [exc |-> Exc("FileNotFoundError", "Data file not found: " \o path),
            data |-> NoData, cache |-> c, read |-> {}]
      ELSE IF d[file].kind = "garbage"
      THEN [exc |-> Exc("JSONDecodeError", "Expecting value: line 1 column 1 (char 0)"),
            data |-> NoData, cache |-> c, read |-> {file}]
      ELSE LET data == json_load(d[file])
               c2 == [k \in DOMAIN c \cup {key} |-> IF k = key THEN data ELSE c[k]]
           IN  IF ~HasLen(data)
               THEN [exc |-> TypeError("object of type 'NoneType' has no len()"),
                     data |-> NoData, cache |-> c2, read |-> {file}]
               ELSE [exc |-> NoExc, data |-> data, cache |-> c2, read |-> {file}]

\* load_json that enters the key in the cache before it reads the document
load_json_eager(path, c, d) ==
  LET key == path
      file == FileOf(path)
      c1 == [k \in DOMAIN c \cup {key} |-> IF k = key THEN NoData ELSE c[k]]
  IN  IF key \in DOMAIN c
      THEN [exc |-> NoExc, data |-> c[key], cache |-> c, read |-> {}]
      ELSE IF d[file].kind = "absent"
      THEN [exc |-> Exc("FileNotFoundError", "Data file not found: " \o path),
            data |-> NoData, cache |-> c1, read |-> {}]
      ELSE IF d[file].kind = "garbage"
      THEN [exc |-> Exc("JSONDecodeError", "Expecting value: line 1 column 1 (char 0)"),
            data |-> NoData, cache |-> c1, read |-> {file}]
      ELSE LET data == json_load(d[file])
               c2 == [k \in DOMAIN c \cup {key} |-> IF k = key THEN data ELSE c[k]]
           IN  IF ~HasLen(data)
               THEN [exc |-> TypeError("object of type 'NoneType' has no len()"),
                     data |-> NoData, cache |-> c2, read |-> {file}]
               ELSE [exc |-> NoExc, data |-> data, cache |-> c2, read |-> {file}]

\* load_json that answers a missing document with an empty list
load_json_lenient(path, c, d) ==
  LET key == path
      file == FileOf(path)
  IN  IF key \in DOMAIN c
      THEN [exc |-> NoExc, data |-> c[key], cache |-> c, read |-> {}]
      ELSE IF d[file].kind = "absent"
      THEN [exc |-> NoExc, data |-> ArrayDoc(<<>>), cache |-> c, read |-> {}]
      ELSE IF d[file].kind = "garbage"
      THEN [exc |-> Exc("JSONDecodeError", "Expecting value: line 1 column 1 (char 0)"),
            data |-> NoData, cache |-> c, read |-> {file}]
      ELSE LET data == json_load(d[file])
               c2 == [k \in DOMAIN c \cup {key} |-> IF k = key THEN data ELSE c[k]]
           IN  IF ~HasLen(data)
               THEN [exc |-> TypeError("object of type 'NoneType' has no len()"),
                     data |-> NoData, cache |-> c2, read |-> {file}]
               ELSE [exc |-> NoExc, data |-> data, cache |-> c2, read |-> {file}]

\* load_json(file_path) run against cache c and file system d.  The result
\* is [exc, data, cache, read]: the exception raised (if any), the value
\* returned, the cache afterwards and the set of documents opened and read.
load_json(path, c, d) ==
  LET key == path                     \* str(file_path)
      file == FileOf(path)
  IN  IF key \in DOMAIN c
      THEN [exc |-> NoExc, data |-> c[key], cache |-> c, read |-> {}]
      ELSE IF d[file].kind = "absent"
      THEN [exc |-> Exc("FileNotFoundError", "Data file not found: " \o path),
            data |-> NoData, cache |-> c, read |-> {}]
      ELSE IF d[file].kind = "garbage"
      THEN [exc |-> Exc("JSONDecodeError", "Expecting value: line 1 column 1 (char 0)"),
            data |-> NoData, cache |-> c, read |-> {file}]
      ELSE LET data == json_load(d[file])
               c2 == [k \in DOMAIN c \cup {key} |-> IF k = key THEN data ELSE c[k]]
           IN  IF ~HasLen(data)       \* len(data) in the log line after caching
               THEN [exc |-> TypeError("object of type 'NoneType' has no len()"),
                     data |-> NoData, cache |-> c2, read |-> {file}]
               ELSE [exc |-> NoExc, data |-> data, cache |-> c2, read |-> {file}]

\* clear_cache() that leaves the cache as it is
clear_cache_kept(c) == c

\* clear_cache()
clear_cache(c) == [k \in {} |-> NoData]

RECURSIVE SumLen(_, _)
SumLen(c, keys) ==
  IF keys = {} THEN 0
  ELSE LET k == CHOOSE x \in keys : TRUE
       IN  Len(c[k].recs) + SumLen(c, keys \ {k})

\* get_cache_info(): len() of a cached value that has no len raises
get_cache_info(c) ==
  IF \E k \in DOMAIN c : ~HasLen(c[k])
  THEN [exc |-> TypeError("object of type 'NoneType' has no len()"),
        cached_files |-> 0, total_records |-> 0]
  ELSE [exc |-> NoExc, cached_files |-> Cardinality(DOMAIN c),
        total_records |-> SumLen(c, DOMAIN c)]

(***************************************************************************)
(* Formatting                                                              *)
(***************************************************************************)
Min(a, b) == IF a <= b THEN a ELSE b

Pad3(n) == IF n < 10 THEN "00" \o ToString(n)
           ELSE IF n < 100 THEN "0" \o ToString(n) ELSE ToString(n)

RECURSIVE Thousands(_)
\* format(n, ",") for an integer n >= 0
Thousands(n) == IF n < 1000 THEN ToString(n)
                ELSE Thousands(n \div 1000) \o "," \o Pad3(n % 1000)

\* str(v) of a JSON value, as an f-string field prints it
Str(v) == CASE v.t = "str" -> v.s
            [] v.t = "int" -> ToString(v.n)
            [] v.t = "float" -> ToString(v.n \div 10) \o "." \o ToString(v.n % 10)
            [] OTHER -> "None"

(***************************************************************************)
(* datetime.fromisoformat and the duration of a flight                     *)
(***************************************************************************)
Digits == "0123456789"
DigitTable == [c \in {CharAt(Digits, i) : i \in 1..Len(Digits)} |->
                 (CHOOSE i \in 1..Len(Digits) : CharAt(Digits, i) = c) - 1]
IsDigit(c) == c \in DOMAIN DigitTable
DigitVal(c) == DigitTable[c]

AllDigits(s) == \A i \in 1..Len(s) : IsDigit(CharAt(s, i))

RECURSIVE Number(_)
\* the value of a string of digits
Number(s) == IF s = "" THEN 0
             ELSE 10 * Number(SubSeq(s, 1, Len(s) - 1)) + DigitVal(CharAt(s, Len(s)))

DaysInMonth == <<31, 28, 31, 30, 31, 30, 31, 31, 30, 31, 30, 31>>

RECURSIVE DaysBefore(_)
DaysBefore(month) == IF month <= 1 THEN 0 ELSE DaysInMonth[month - 1] + DaysBefore(month - 1)

\* datetime.fromisoformat(s) for the form YYYY-MM-DDTHH:MM:SS, the form of
\* the timestamps of the flight resource; [ok, sec]: whether s parses and
\* the seconds since the start of its year (the timestamps compared share
\* their year, which is not a leap year).
fromisoformat(s) ==
  LET shape == /\ Len(s) = 19
               /\ CharAt(s, 5) = "-" /\ CharAt(s, 8) = "-" /\ CharAt(s, 11) = "T"
               /\ CharAt(s, 14) = ":" /\ CharAt(s, 17) = ":"
               /\ AllDigits(SubSeq(s, 1, 4)) /\ AllDigits(SubSeq(s, 6, 7))
               /\ AllDigits(SubSeq(s, 9, 10)) /\ AllDigits(SubSeq(s, 12, 13))
               /\ AllDigits(SubSeq(s, 15, 16)) /\ AllDigits(SubSeq(s, 18, 19))
      mo == Number(SubSeq(s, 6, 7))
      dd == Number(SubSeq(s, 9, 10))
      hh == Number(SubSeq(s, 12, 13))
      mi == Number(SubSeq(s, 15, 16))
      ss == Number(SubSeq(s, 18, 19))
  IN  IF shape /\ mo \in 1..12 /\ dd >= 1 /\ dd <= DaysInMonth[mo]
               /\ hh < 24 /\ mi < 60 /\ ss < 60
      THEN [ok |-> TRUE, sec |-> (((DaysBefore(mo) + dd - 1) * 24 + hh) * 60 + mi) * 60 + ss]
      ELSE [ok |-> FALSE, sec |-> 0]

\* round(num / den, 0) to the nearest integer, a tie going to the even one
RoundHalfEven(num, den) ==
  LET q == num \div den
      r == num % den
  IN  IF 2 * r < den THEN q
      ELSE IF 2 * r > den THEN q + 1
      ELSE IF q % 2 = 0 THEN q ELSE q + 1

\* The durations, in whole minutes under one day, that lie half way between
\* two tenths of an hour and that round(minutes / 60, 1) rounds away from
\* zero: the double nearest to minutes / 60 lies above the half-way point
\* (or on it, next to an odd tenth).  The other half-way durations are
\* rounded toward zero.
TieMinutesRoundedUp == {
  3, 27, 33, 39, 45, 63, 81, 93, 105, 111, 141, 147, 165, 171, 177, 201,
  207, 225, 231, 237, 249, 267, 279, 285, 297, 309, 327, 339, 345, 357,
  369, 387, 399, 405, 417, 429, 447, 459, 465, 477, 483, 489, 513, 519,
  525, 543, 549, 573, 579, 585, 603, 609, 633, 639, 645, 663, 669, 693,
  699, 705, 723, 729, 753, 759, 765, 783, 789, 813, 819, 825, 843, 849,
  873, 879, 885, 903, 909, 933, 939, 945, 963, 981, 993, 1005, 1011, 1023,
  1041, 1053, 1065, 1071, 1083, 1101, 1113, 1125, 1131, 1143, 1161, 1173,
  1185, 1191, 1203, 1221, 1233, 1245, 1251, 1263, 1281, 1293, 1305, 1311,
  1323, 1341, 1353, 1365, 1371, 1383, 1401, 1413, 1425, 1431 }

\* round(seconds / 3600, 1), in tenths of an hour
RoundHours(seconds) ==
  LET a == IF seconds < 0 THEN 0 - seconds ELSE seconds
      q == a \div 360
      r == a % 360
      t == IF r > 180 \/ (r = 180 /\ (a \div 60) \in TieMinutesRoundedUp) THEN q + 1 ELSE q
  IN  IF seconds < 0 THEN 0 - t ELSE t

\* lines 57-64 of flight_tool.py with 999 for the fallback 0
DerivedDurationOrLast(flight) ==
  LET depV == get(flight, "departure_time", JStr(""))
      arrV == get(flight, "arrival_time", JStr(""))
      dep == fromisoformat(depV.s)
      arr == fromisoformat(arrV.s)
  IN  IF depV.t = "str" /\ arrV.t = "str" /\ dep.ok /\ arr.ok
      THEN JFloat(RoundHours(arr.sec - dep.sec))
      ELSE JInt(999)

\* lines 57-64 of flight_tool.py: the value stored as duration_hours
\* (round((arr - dep).total_seconds() / 3600, 1) is a float, in tenths of
\* an hour; the fallback 0 is an int)
DerivedDuration(flight) ==
  LET depV == get(flight, "departure_time", JStr(""))
      arrV == get(flight, "arrival_time", JStr(""))
      dep == fromisoformat(depV.s)
      arr == fromisoformat(arrV.s)
  IN  IF depV.t = "str" /\ arrV.t = "str" /\ dep.ok /\ arr.ok
      THEN JFloat(RoundHours(arr.sec - dep.sec))
      ELSE JInt(0)

\* the loop body of lines 54-64: the record after the loop has visited it
WithDuration(flight) ==
  IF "duration_hours" \in DOMAIN flight THEN flight
  ELSE [k \in DOMAIN flight \cup {"duration_hours"} |->
          IF k = "duration_hours" THEN DerivedDuration(flight) ELSE flight[k]]

(***************************************************************************)
(* Helpers shared by the tools                                             *)
(***************************************************************************)
\* A request string as json.loads sees it: json = "invalid" (not JSON),
\* "nonobject" (JSON, but a list rather than an object) or "object", with
\* obj the object's keys and values.
InvalidQuery   == [json |-> "invalid",   obj |-> NoKeys]
NonObjectQuery == [json |-> "nonobject", obj |-> NoKeys]
ObjectQuery(o) == [json |-> "object",    obj |-> o]

\* A report is [text, options]: its first line and the options it lists.
Text(t) == [text |-> t, options |-> <<>>]
NoReport == Text("")

\* the outcome of the body of a _run method
Raise(e, c, rd, h) == [exc |-> e, report |-> NoReport, cache |-> c, read |-> rd, http |-> h]
Return(r, c, rd, h) == [exc |-> NoExc, report |-> r, cache |-> c, read |-> rd, http |-> h]

\* the exception classes the model raises; each is a subclass of Exception
ExceptionClasses ==
  {"JSONDecodeError", "AttributeError", "TypeError", "ValueError", "FileNotFoundError"}

\* _run with the JSONDecodeError clause alone
CaughtJsonOnly(b, invalidText, prefix) ==
  IF b.exc = NoExc THEN b
  ELSE IF b.exc.exc = "JSONDecodeError"
  THEN Return(Text(invalidText), b.cache, b.read, b.http)
  ELSE b

\* _run with the "except Exception" clause alone
CaughtGenericOnly(b, invalidText, prefix) ==
  IF b.exc = NoExc THEN b
  ELSE IF b.exc.exc \in ExceptionClasses
  THEN Return(Text(prefix \o b.exc.msg), b.cache, b.read, b.http)
  ELSE b

\* The except clauses that close every _run: JSONDecodeError becomes the
\* invalid-format text, any other Exception the tool's "Error ...: {e}" text;
\* what neither clause catches leaves _run.
Caught(b, invalidText, prefix) ==
  IF b.exc = NoExc THEN b
  ELSE IF b.exc.exc = "JSONDecodeError"
  THEN Return(Text(invalidText), b.cache, b.read, b.http)
  ELSE IF b.exc.exc \in ExceptionClasses
  THEN Return(Text(prefix \o b.exc.msg), b.cache, b.read, b.http)
  ELSE b

\* "for x in data" needs a list: a cached null raises
Iterable(data) == data.kind = "array"
NotIterable == TypeError("'NoneType' object is not iterable")

\* the indices 1..n that satisfy Test, ascending (a list comprehension)
Indices(n, Test(_)) == SelectSeq([i \in 1..n |-> i], Test)

\* sorted(items, key=...) as a permutation of the indices 1..n, where
\* Less(i, j) says that the key of item i is below the key of item j: the
\* result lists the indices by ascending key, equal keys in their original
\* order (Python's sort is stable).
SortedOrderBy(n, Less(_, _)) ==
  LET Before(j, i) == Less(j, i) \/ (~Less(i, j) /\ j < i)
      Rank(i) == 1 + Cardinality({j \in 1..n : j # i /\ Before(j, i)})
  IN  [r \in 1..n |-> CHOOSE i \in 1..n : Rank(i) = r]

\* sorted() on numeric keys
SortedOrder(keys) == SortedOrderBy(Len(keys), LAMBDA i, j : keys[i] < keys[j])

\* sorted() raises TypeError when it has to compare a key that is no number
SortRaises(keyValues) ==
  Len(keyValues) >= 2 /\ \E i \in 1..Len(keyValues) : ~IsNumber(keyValues[i])

SortTypeError == TypeError("'<' not supported between instances of 'int' and 'NoneType'")

\* format(v, ",") of a record's price; only a number accepts the format
CommaRaises(v) == ~IsNumber(v)
CommaError(v) ==
  IF v.t = "str" THEN ValueError("Cannot specify ',' with 's'.")
  ELSE TypeError("unsupported format string passed to " \o TypeName(v) \o ".__format__")
Comma(v) == IF v.t = "int" THEN Thousands(v.n)
            ELSE Thousands(v.n \div 10) \o "." \o ToString(v.n % 10)

(***************************************************************************)
(* FlightSearchTool                                                        *)
(***************************************************************************)
TOP_FLIGHTS == 3

\* the filter condition of lines 46-47 without the .lower() calls
FlightMatchesExactCase(flight, source, destination) ==
  /\ get(flight, "from", JStr("")).s = source
  /\ get(flight, "to", JStr("")).s = destination

\* the filter condition of lines 46-47
FlightMatches(flight, source, destination) ==
  /\ lower(get(flight, "from", JStr("")).s) = lower(source)
  /\ lower(get(flight, "to", JStr("")).s) = lower(destination)

\* the exception the filter condition raises on a record, if any: .lower()
\* of a value that is no string ("to" is read only when "from" matched)
FlightMatchExc(flight, source, destination) ==
  LET fromV == get(flight, "from", JStr(""))
      toV == get(flight, "to", JStr(""))
  IN  IF fromV.t # "str" THEN AttributeError(fromV, "lower")
      ELSE IF lower(fromV.s) = lower(source) /\ toV.t # "str"
      THEN AttributeError(toV, "lower")
      ELSE NoExc

\* the check of line 37 with "and" for "or"
FlightMissingBoth(source, destination) == source = "" /\ destination = ""

\* line 37: "if not source or not destination"
FlightMissing(source, destination) == source = "" \/ destination = ""

\* the text of line 51 worded as an error
NoFlightsError(source, destination) ==
  "Error: No flights found from " \o source \o " to " \o destination \o "."

\* line 51
NoFlightsText(source, destination) ==
  "No flights found from " \o source \o " to " \o destination \o "."

\* dep_time of lines 85-87: the clock time cut out of the timestamp
DepartureClock(flight) ==
  LET v == get(flight, "departure_time", JStr("N/A"))
      RECURSIVE AfterT(_)
      AfterT(x) == IF CharAt(x, 1) = "T" THEN SubSeq(x, 2, Len(x))
                   ELSE AfterT(SubSeq(x, 2, Len(x)))
      \* split('T')[1]: what lies between the first and the second 'T'
      RECURSIVE UptoT(_)
      UptoT(x) == IF x = "" \/ CharAt(x, 1) = "T" THEN ""
                  ELSE CharAt(x, 1) \o UptoT(SubSeq(x, 2, Len(x)))
  IN  IF v.t = "str" /\ contains(v.s, "T")
      THEN LET part == UptoT(AfterT(v.s)) IN SubSeq(part, 1, Min(5, Len(part)))
      ELSE Str(v)

\* one "Option i" block of the report (lines 79-91)
FlightOption(flight) ==
  [airline   |-> Str(get(flight, "airline", JStr("N/A"))),
   price     |-> Comma(get(flight, "price", JInt(0))),
   duration  |-> Str(get(flight, "duration_hours", JInt(0))),
   departure |-> DepartureClock(flight),
   flight_id |-> Str(get(flight, "flight_id", JStr("N/A")))]

\* the sort key of lines 67-70 without the preference test
FlightSortKeyByPrice(flight, preference) == get(flight, "price", JInt(999999))

\* the sort key of lines 67-70
FlightSortKey(flight, preference) ==
  IF preference = "fastest" THEN get(flight, "duration_hours", JInt(999))
  ELSE get(flight, "price", JInt(999999))

\* lines 31-93: the body of the try block, on request q, cache c, files d
FlightBody(q, c, d) ==
  IF q.json = "invalid"
  THEN Raise(Exc("JSONDecodeError", "Expecting value: line 1 column 1 (char 0)"), c, {}, 0)
  ELSE IF q.json # "object"
  THEN Raise(Exc("AttributeError", "'list' object has no attribute 'get'"), c, {}, 0)
  ELSE
  LET srcV  == get(q.obj, "source", JStr(""))
      dstV  == get(q.obj, "destination", JStr(""))
      prefV == get(q.obj, "preference", JStr("cheapest"))
  IN
  IF srcV.t # "str" THEN Raise(AttributeError(srcV, "strip"), c, {}, 0)
  ELSE IF dstV.t # "str" THEN Raise(AttributeError(dstV, "strip"), c, {}, 0)
  ELSE IF prefV.t # "str" THEN Raise(AttributeError(prefV, "lower"), c, {}, 0)
  ELSE
  LET source == strip(srcV.s)
      destination == strip(dstV.s)
      preference == lower(prefV.s)
  IN
  IF FlightMissing(source, destination)
  THEN Return(Text("Error: Both source and destination are required."), c, {}, 0)
  ELSE
  LET ld == load_json(FLIGHTS_PATH, c, d) IN
  IF ld.exc # NoExc THEN Raise(ld.exc, ld.cache, ld.read, 0)
  ELSE IF ~Iterable(ld.data) THEN Raise(NotIterable, ld.cache, ld.read, 0)
  ELSE
  LET flights == ld.data.recs
      n == Len(flights)
      bad == {i \in 1..n : FlightMatchExc(flights[i], source, destination) # NoExc}
  IN
  IF bad # {}
  THEN Raise(FlightMatchExc(flights[CHOOSE i \in bad : \A j \in bad : i <= j],
                            source, destination), ld.cache, ld.read, 0)
  ELSE
  LET idx == Indices(n, LAMBDA i : FlightMatches(flights[i], source, destination)) IN
  IF idx = <<>>
  THEN Return(Text(NoFlightsText(source, destination)), ld.cache, ld.read, 0)
  ELSE
  LET \* the loop of lines 54-64 writes into the records of the loaded list,
      \* which is the list the cache holds
      matched == {idx[j] : j \in 1..Len(idx)}
      flights2 == [i \in 1..n |-> IF i \in matched THEN WithDuration(flights[i])
                                  ELSE flights[i]]
      c2 == [ld.cache EXCEPT ![FLIGHTS_PATH] = [kind |-> "array", recs |-> flights2]]
      filtered == [j \in 1..Len(idx) |-> flights2[idx[j]]]
      keyValues == [j \in 1..Len(idx) |-> FlightSortKey(filtered[j], preference)]
  IN
  IF SortRaises(keyValues) THEN Raise(SortTypeError, c2, ld.read, 0)
  ELSE
  LET order == SortedOrder([j \in 1..Len(idx) |-> Tenths(keyValues[j])])
      sorted == [r \in 1..Len(idx) |-> filtered[order[r]]]
      top == SubSeq(sorted, 1, Min(TOP_FLIGHTS, Len(sorted)))
      unprintable == {r \in 1..Len(top) : CommaRaises(get(top[r], "price", JInt(0)))}
  IN
  IF unprintable # {}
  THEN Raise(CommaError(get(top[CHOOSE r \in unprintable : \A k \in unprintable : r <= k],
                                "price", JInt(0))), c2, ld.read, 0)
  ELSE Return([text |-> "Found " \o ToString(Len(sorted)) \o " flights from " \o source
                        \o " to " \o destination \o ".",
               options |-> [r \in 1..Len(top) |-> FlightOption(top[r])]],
              c2, ld.read, 0)

\* FlightSearchTool._run(query)
FlightSearchTool_run(q, c, d) ==
  Caught(FlightBody(q, c, d), "Error: Invalid JSON format.", "Error searching flights: ")

(***************************************************************************)
(* int() and float() of a request field                                    *)
(***************************************************************************)
\* int(v): [exc, n].  A float is truncated toward zero; a string must be a
\* string of digits (the numeric strings the requests of this model carry).
IntOf(v) ==
  CASE v.t = "int" -> [exc |-> NoExc, n |-> v.n]
    [] v.t = "float" -> [exc |-> NoExc,
                         n |-> IF v.n >= 0 THEN v.n \div 10 ELSE -((-v.n) \div 10)]
    [] v.t = "str" ->
         IF v.s # "" /\ AllDigits(v.s) THEN [exc |-> NoExc, n |-> Number(v.s)]
         ELSE [exc |-> ValueError("invalid literal for int() with base 10: '" \o v.s \o "'"),
               n |-> 0]
    [] OTHER -> [exc |-> TypeError("int() argument must be a string, a bytes-like object or a real number, not 'NoneType'"),
                 n |-> 0]

\* float(v): [exc, n], n in tenths
FloatOf(v) ==
  CASE v.t = "int" -> [exc |-> NoExc, n |-> 10 * v.n]
    [] v.t = "float" -> [exc |-> NoExc, n |-> v.n]
    [] v.t = "str" ->
         IF v.s # "" /\ AllDigits(v.s) THEN [exc |-> NoExc, n |-> 10 * Number(v.s)]
         ELSE [exc |-> ValueError("could not convert string to float: '" \o v.s \o "'"),
               n |-> 0]
    [] OTHER -> [exc |-> TypeError("float() argument must be a string or a real number, not 'NoneType'"),
                 n |-> 0]

\* the first exception of a sequence of evaluations, in evaluation order
FirstExc(excs) ==
  IF \A i \in 1..Len(excs) : excs[i] = NoExc THEN NoExc
  ELSE excs[CHOOSE i \in 1..Len(excs) : excs[i] # NoExc /\ \A j \in 1..(i - 1) : excs[j] = NoExc]

\* the exception of calling a str method on v
StrExc(v, method) == IF v.t = "str" THEN NoExc ELSE AttributeError(v, method)

\* the first index of 1..n on which Exc is an exception, 0 when there is none
FirstBad(n, ExcAt(_)) ==
  IF \A i \in 1..n : ExcAt(i) = NoExc THEN 0
  ELSE CHOOSE i \in 1..n : ExcAt(i) # NoExc /\ \A j \in 1..(i - 1) : ExcAt(j) = NoExc

CompareTypeError(a, b, op) ==
  TypeError("'" \o op \o "' not supported between instances of '" \o TypeName(a)
            \o "' and '" \o TypeName(b) \o "'")

(***************************************************************************)
(* HotelRecommendationTool                                                 *)
(***************************************************************************)
TOP_HOTELS == 3
DEFAULT_MIN_STARS == 3

\* the sort key of lines 69-72 with the stars ascending
HotelKeyLessAscending(a, b) ==
  LET Stars(x) == Tenths(get(x, "stars", JInt(0)))
      Price(x) == Tenths(get(x, "price_per_night", JInt(0)))
  IN  \/ Stars(a) < Stars(b)
      \/ Stars(a) = Stars(b) /\ Price(a) < Price(b)

\* the sort key of lines 69-72, the tuple (-stars, price): the key of hotel a
\* is below the key of hotel b
HotelKeyLess(a, b) ==
  LET NegStars(x) == 0 - Tenths(get(x, "stars", JInt(0)))
      Price(x) == Tenths(get(x, "price_per_night", JInt(0)))
  IN  \/ NegStars(a) < NegStars(b)
      \/ NegStars(a) = NegStars(b) /\ Price(a) < Price(b)

HotelOption(hotel) ==
  [name      |-> Str(get(hotel, "name", JStr("N/A"))),
   stars     |-> Str(get(hotel, "stars", JInt(0))),
   price     |-> Comma(get(hotel, "price_per_night", JInt(0))),
   amenities |-> get(hotel, "amenities", JStr("")).s,
   hotel_id  |-> Str(get(hotel, "hotel_id", JStr("N/A")))]

\* lines 31-94 of hotel_tool.py.  A record's amenities list is held as its
\* ", ".join text; price_per_night is a number where present.
HotelBody(q, c, d) ==
  IF q.json = "invalid"
  THEN Raise(Exc("JSONDecodeError", "Expecting value: line 1 column 1 (char 0)"), c, {}, 0)
  ELSE IF q.json # "object"
  THEN Raise(Exc("AttributeError", "'list' object has no attribute 'get'"), c, {}, 0)
  ELSE
  LET cityV == get(q.obj, "city", JStr(""))
      min_rating == IntOf(get(q.obj, "min_rating", JInt(DEFAULT_MIN_STARS)))
      hasMax == "max_price_per_night" \in DOMAIN q.obj
      max_price == get(q.obj, "max_price_per_night", JNull)
      early == FirstExc(<<StrExc(cityV, "strip"), min_rating.exc>>)
  IN
  IF early # NoExc THEN Raise(early, c, {}, 0)
  ELSE
  LET city == strip(cityV.s) IN
  IF city = "" THEN Return(Text("Error: City is required."), c, {}, 0)
  ELSE
  LET ld == load_json(HOTELS_PATH, c, d) IN
  IF ld.exc # NoExc THEN Raise(ld.exc, ld.cache, ld.read, 0)
  ELSE IF ~Iterable(ld.data) THEN Raise(NotIterable, ld.cache, ld.read, 0)
  ELSE
  LET hotels == ld.data.recs
      n == Len(hotels)
      CityExc(i) == StrExc(get(hotels[i], "city", JStr("")), "lower")
      badCity == FirstBad(n, CityExc)
  IN
  IF badCity # 0 THEN Raise(CityExc(badCity), ld.cache, ld.read, 0)
  ELSE
  LET inCity == Indices(n, LAMBDA i : lower(get(hotels[i], "city", JStr("")).s) = lower(city)) IN
  IF inCity = <<>>
  THEN Return(Text("No hotels found in " \o city \o "."), ld.cache, ld.read, 0)
  ELSE
  LET Stars(i) == get(hotels[i], "stars", JInt(0))
      StarsExc(k) == IF IsNumber(Stars(inCity[k])) THEN NoExc
                     ELSE CompareTypeError(Stars(inCity[k]), JInt(0), ">=")
      badStars == FirstBad(Len(inCity), StarsExc)
  IN
  IF badStars # 0 THEN Raise(StarsExc(badStars), ld.cache, ld.read, 0)
  ELSE
  LET rated == SelectSeq(inCity, LAMBDA i : Tenths(Stars(i)) >= 10 * min_rating.n)
      \* "if max_price:" is the truth value of the field: a number other
      \* than 0, or a non-empty string
      applyMax == CASE IsNumber(max_price) -> max_price.n # 0
                    [] max_price.t = "str" -> max_price.s # ""
                    [] OTHER -> FALSE
      \* a record without a price counts as float('inf')
      Affordable(i) == /\ "price_per_night" \in DOMAIN hotels[i]
                       /\ Tenths(hotels[i]["price_per_night"]) <= Tenths(max_price)
  IN
  IF applyMax /\ ~IsNumber(max_price) /\ rated # <<>>
  THEN Raise(CompareTypeError(get(hotels[rated[1]], "price_per_night", JFloat(0)),
                              max_price, "<="), ld.cache, ld.read, 0)
  ELSE
  LET kept == IF applyMax THEN SelectSeq(rated, Affordable) ELSE rated IN
  IF kept = <<>>
  THEN Return(Text("No hotels found in " \o city \o " matching your criteria."),
              ld.cache, ld.read, 0)
  ELSE
  LET m == Len(kept)
      order == SortedOrderBy(m, LAMBDA i, j : HotelKeyLess(hotels[kept[i]], hotels[kept[j]]))
      sorted == [r \in 1..m |-> hotels[kept[order[r]]]]
      top == SubSeq(sorted, 1, Min(TOP_HOTELS, m))
      unprintable == FirstBad(Len(top),
                       LAMBDA r : IF CommaRaises(get(top[r], "price_per_night", JInt(0)))
                                  THEN CommaError(get(top[r], "price_per_night", JInt(0)))
                                  ELSE NoExc)
  IN
  IF unprintable # 0
  THEN Raise(CommaError(get(top[unprintable], "price_per_night", JInt(0))),
             ld.cache, ld.read, 0)
  ELSE Return([text |-> "Found " \o ToString(m) \o " hotels in " \o city
                        \o " (showing top 3).",
               options |-> [r \in 1..Len(top) |-> HotelOption(top[r])]],
              ld.cache, ld.read, 0)

\* HotelRecommendationTool._run(query)
HotelRecommendationTool_run(q, c, d) ==
  Caught(HotelBody(q, c, d),
         "Error: Invalid JSON format. Please provide valid JSON with 'city'.",
         "Error searching hotels: ")

(***************************************************************************)
(* PlacesDiscoveryTool                                                     *)
(***************************************************************************)
TOP_PLACES == 5
DEFAULT_MIN_RATING == 35   \* 3.5, in tenths

\* the sort key of lines 70-73 without the minus sign
PlaceSortKeyAscending(place) == Tenths(get(place, "rating", JInt(0)))

\* the sort key of lines 70-73: -rating, in tenths
PlaceSortKey(place) == 0 - Tenths(get(place, "rating", JInt(0)))

\* the category filter of line 56 without .lower() on the record's type
PlaceOfTypeExactCase(place, category) == get(place, "type", JStr("")).s = lower(category)

\* the category filter of line 56
PlaceOfType(place, category) == lower(get(place, "type", JStr("")).s) = lower(category)

PlaceOption(place) ==
  [name        |-> Str(get(place, "name", JStr("N/A"))),
   type        |-> Str(get(place, "type", JStr("N/A"))),
   rating      |-> Str(get(place, "rating", JInt(0))),
   description |-> get(place, "description", JStr("")).s,
   place_id    |-> Str(get(place, "place_id", JStr("N/A")))]

\* lines 31-95 of places_tool.py
PlacesBody(q, c, d) ==
  IF q.json = "invalid"
  THEN Raise(Exc("JSONDecodeError", "Expecting value: line 1 column 1 (char 0)"), c, {}, 0)
  ELSE IF q.json # "object"
  THEN Raise(Exc("AttributeError", "'list' object has no attribute 'get'"), c, {}, 0)
  ELSE
  LET cityV == get(q.obj, "city", JStr(""))
      catV == get(q.obj, "category", JStr(""))
      min_rating == FloatOf(get(q.obj, "min_rating", JFloat(DEFAULT_MIN_RATING)))
      early == FirstExc(<<StrExc(cityV, "strip"), StrExc(catV, "strip"), min_rating.exc>>)
  IN
  IF early # NoExc THEN Raise(early, c, {}, 0)
  ELSE
  LET city == strip(cityV.s)
      category == lower(strip(catV.s))
  IN
  IF city = "" THEN Return(Text("Error: City is required."), c, {}, 0)
  ELSE
  LET ld == load_json(PLACES_PATH, c, d) IN
  IF ld.exc # NoExc THEN Raise(ld.exc, ld.cache, ld.read, 0)
  ELSE IF ~Iterable(ld.data) THEN Raise(NotIterable, ld.cache, ld.read, 0)
  ELSE
  LET places == ld.data.recs
      n == Len(places)
      CityExc(i) == StrExc(get(places[i], "city", JStr("")), "lower")
      badCity == FirstBad(n, CityExc)
  IN
  IF badCity # 0 THEN Raise(CityExc(badCity), ld.cache, ld.read, 0)
  ELSE
  LET inCity == Indices(n, LAMBDA i : lower(get(places[i], "city", JStr("")).s) = lower(city)) IN
  IF inCity = <<>>
  THEN Return(Text("No places found in " \o city \o "."), ld.cache, ld.read, 0)
  ELSE
  LET TypeExc(k) == IF category = "" THEN NoExc
                    ELSE StrExc(get(places[inCity[k]], "type", JStr("")), "lower")
      badType == FirstBad(Len(inCity), TypeExc)
  IN
  IF badType # 0 THEN Raise(TypeExc(badType), ld.cache, ld.read, 0)
  ELSE
  LET ofType == IF category = "" THEN inCity
                ELSE SelectSeq(inCity, LAMBDA i : PlaceOfType(places[i], category))
      Rating(i) == get(places[i], "rating", JInt(0))
      RatingExc(k) == IF IsNumber(Rating(ofType[k])) THEN NoExc
                      ELSE CompareTypeError(Rating(ofType[k]), JFloat(0), ">=")
      badRating == FirstBad(Len(ofType), RatingExc)
  IN
  IF badRating # 0 THEN Raise(RatingExc(badRating), ld.cache, ld.read, 0)
  ELSE
  LET kept == SelectSeq(ofType, LAMBDA i : Tenths(Rating(i)) >= min_rating.n) IN
  IF kept = <<>>
  THEN Return(Text("No places found in " \o city
                   \o (IF category # "" THEN " in category '" \o category \o "'" ELSE "")
                   \o " matching your criteria."), ld.cache, ld.read, 0)
  ELSE
  LET m == Len(kept)
      order == SortedOrder([k \in 1..m |-> PlaceSortKey(places[kept[k]])])
      sorted == [r \in 1..m |-> places[kept[order[r]]]]
      top == SubSeq(sorted, 1, Min(TOP_PLACES, m))
  IN
  Return([text |-> "Found " \o ToString(m) \o " places in " \o city
                   \o (IF category # "" THEN " (" \o category \o ")" ELSE "")
                   \o " (showing top 5).",
          options |-> [r \in 1..Len(top) |-> PlaceOption(top[r])]],
         ld.cache, ld.read, 0)

\* PlacesDiscoveryTool._run(query)
PlacesDiscoveryTool_run(q, c, d) ==
  Caught(PlacesBody(q, c, d), "Error: Invalid JSON format.", "Error searching places: ")

(***************************************************************************)
(* BudgetEstimationTool                                                    *)
(***************************************************************************)
DEFAULT_DAILY_EXPENSE == 2000
ADVANCE_TIP_ABOVE == 30000
HOTSPOT_TIP_ABOVE == 4000

\* format(x, ",.0f") of a float of x tenths, x >= 0
Comma0f(tenths) == Thousands(RoundHalfEven(tenths, 10))

\* line 53
HotelTotal(hotel_price_per_night, num_nights) == hotel_price_per_night * num_nights

\* line 54 without the arrival day
FoodTravelPerNight(daily_expense, num_nights) == daily_expense * num_nights

\* line 54
FoodTravelTotal(daily_expense, num_nights) == daily_expense * (num_nights + 1)

\* line 71 with >= for >
AdvanceTipInclusive(total_cost) == total_cost >= 10 * ADVANCE_TIP_ABOVE

\* line 71: if total_cost > 30000 (amounts in tenths)
AdvanceTip(total_cost) == total_cost > 10 * ADVANCE_TIP_ABOVE

\* line 73: if hotel_price_per_night > 4000
HotspotTip(hotel_price_per_night) == hotel_price_per_night > 10 * HOTSPOT_TIP_ABOVE

\* lines 45-78 of budget_tool.py; amounts are floats, in tenths
BudgetBody(q, c) ==
  IF q.json = "invalid"
  THEN Raise(Exc("JSONDecodeError", "Expecting value: line 1 column 1 (char 0)"), c, {}, 0)
  ELSE IF q.json # "object"
  THEN Raise(Exc("AttributeError", "'list' object has no attribute 'get'"), c, {}, 0)
  ELSE
  LET flight_price == FloatOf(get(q.obj, "flight_price", JInt(0)))
      hotel_price_per_night == FloatOf(get(q.obj, "hotel_price_per_night", JInt(0)))
      num_nights == IntOf(get(q.obj, "num_nights", JInt(1)))
      daily_expense == FloatOf(get(q.obj, "daily_expense", JInt(DEFAULT_DAILY_EXPENSE)))
      early == FirstExc(<<flight_price.exc, hotel_price_per_night.exc,
                          num_nights.exc, daily_expense.exc>>)
  IN
  IF early # NoExc THEN Raise(early, c, {}, 0)
  ELSE
  LET hotel_total == HotelTotal(hotel_price_per_night.n, num_nights.n)
      food_travel_total == FoodTravelTotal(daily_expense.n, num_nights.n)
      total_cost == flight_price.n + hotel_total + food_travel_total
  IN
  Return([text |-> "Budget Breakdown",
          options |-> << [flight_cost       |-> flight_price.n,
                          nights            |-> num_nights.n,
                          hotel_cost        |-> hotel_total,
                          per_night         |-> hotel_price_per_night.n,
                          food_travel_cost  |-> food_travel_total,
                          per_day           |-> daily_expense.n,
                          days              |-> num_nights.n + 1,
                          total_cost        |-> total_cost,
                          total_text        |-> Comma0f(total_cost),
                          advance_tip       |-> AdvanceTip(total_cost),
                          hotspot_tip       |-> HotspotTip(hotel_price_per_night.n),
                          transport_tip     |-> TRUE,
                          eateries_tip      |-> TRUE] >>],
         c, {}, 0)

\* BudgetEstimationTool._run(query)
BudgetEstimationTool_run(q, c) ==
  Caught(BudgetBody(q, c), "Error: Invalid JSON format.", "Error calculating budget: ")

\* calculate_budget(flight_price, hotel_price_per_night, num_nights,
\* daily_expense): the amounts in tenths, num_nights an integer, daily_expense
\* a JSON value (JNull for None).  per_day_average is the quotient num / den.
calculate_budget(flight_price, hotel_price_per_night, num_nights, daily_expense) ==
  LET daily == IF daily_expense = JNull THEN 10 * DEFAULT_DAILY_EXPENSE
               ELSE Tenths(daily_expense)
      hotel_total == hotel_price_per_night * num_nights
      food_travel_total == daily * (num_nights + 1)
      total_cost == flight_price + hotel_total + food_travel_total
  IN  [flight_cost      |-> flight_price,
       hotel_cost       |-> hotel_total,
       food_travel_cost |-> food_travel_total,
       total_cost       |-> total_cost,
       per_day_average  |-> [num |-> total_cost, den |-> num_nights + 1]]

(***************************************************************************)
(* WeatherLookupTool, fetch_weather and get_weather_condition              *)
(***************************************************************************)
DEFAULT_NUM_DAYS == 7

\* settings.CITY_COORDINATES
CITY_COORDINATES ==
  [c \in {"mumbai", "delhi", "bangalore", "kolkata", "chennai", "hyderabad", "pune",
          "ahmedabad", "jaipur", "goa", "kochi", "udaipur", "varanasi", "shimla",
          "manali", "darjeeling", "agra", "amritsar", "mysore", "rishikesh"} |->
     CASE c = "mumbai" -> [latitude |-> "19.0760", longitude |-> "72.8777"]
       [] c = "delhi" -> [latitude |-> "28.7041", longitude |-> "77.1025"]
       [] c = "bangalore" -> [latitude |-> "12.9716", longitude |-> "77.5946"]
       [] c = "kolkata" -> [latitude |-> "22.5726", longitude |-> "88.3639"]
       [] c = "chennai" -> [latitude |-> "13.0827", longitude |-> "80.2707"]
       [] c = "hyderabad" -> [latitude |-> "17.3850", longitude |-> "78.4867"]
       [] c = "pune" -> [latitude |-> "18.5204", longitude |-> "73.8567"]
       [] c = "ahmedabad" -> [latitude |-> "23.0225", longitude |-> "72.5714"]
       [] c = "jaipur" -> [latitude |-> "26.9124", longitude |-> "75.7873"]
       [] c = "goa" -> [latitude |-> "15.2993", longitude |-> "74.1240"]
       [] c = "kochi" -> [latitude |-> "9.9312", longitude |-> "76.2673"]
       [] c = "udaipur" -> [latitude |-> "24.5854", longitude |-> "73.7125"]
       [] c = "varanasi" -> [latitude |-> "25.3176", longitude |-> "82.9739"]
       [] c = "shimla" -> [latitude |-> "31.1048", longitude |-> "77.1734"]
       [] c = "manali" -> [latitude |-> "32.2432", longitude |-> "77.1892"]
       [] c = "darjeeling" -> [latitude |-> "27.0410", longitude |-> "88.2663"]
       [] c = "agra" -> [latitude |-> "27.1767", longitude |-> "78.0081"]
       [] c = "amritsar" -> [latitude |-> "31.6340", longitude |-> "74.8723"]
       [] c = "mysore" -> [latitude |-> "12.2958", longitude |-> "76.6394"]
       [] OTHER -> [latitude |-> "30.0869", longitude |-> "78.2676"]]

NoCoordinates == [latitude |-> "", longitude |-> ""]

\* get_city_coordinates without .lower()
get_city_coordinates_exact(city) ==
  IF city \in DOMAIN CITY_COORDINATES THEN CITY_COORDINATES[city]
  ELSE NoCoordinates

\* Settings.get_city_coordinates(city): None is NoCoordinates
get_city_coordinates(city) ==
  IF lower(city) \in DOMAIN CITY_COORDINATES THEN CITY_COORDINATES[lower(city)]
  ELSE NoCoordinates

\* get_weather_condition with ">=" for ">"
get_weather_condition_inclusive(precipitation, windspeed) ==
  IF precipitation >= 100 THEN "Rainy"
  ELSE IF precipitation >= 20 THEN "Light Rain"
  ELSE IF windspeed >= 300 THEN "Windy"
  ELSE IF windspeed >= 150 THEN "Breezy"
  ELSE "Clear/Sunny"

\* get_weather_condition(precipitation, windspeed), both in tenths
get_weather_condition(precipitation, windspeed) ==
  IF precipitation > 100 THEN "Rainy"
  ELSE IF precipitation > 20 THEN "Light Rain"
  ELSE IF windspeed > 300 THEN "Windy"
  ELSE IF windspeed > 150 THEN "Breezy"
  ELSE "Clear/Sunny"

Pad2(n) == IF n < 10 THEN "0" \o ToString(n) ELSE ToString(n)
Pad4(n) == IF n < 10 THEN "000" \o ToString(n)
           ELSE IF n < 100 THEN "00" \o ToString(n)
           ELSE IF n < 1000 THEN "0" \o ToString(n) ELSE ToString(n)

\* the Gregorian calendar of datetime.date
IsLeap(year) == (year % 4 = 0 /\ year % 100 # 0) \/ year % 400 = 0
DaysInYear(year) == IF IsLeap(year) THEN 366 ELSE 365
DaysIn(year, month) == IF month = 2 /\ IsLeap(year) THEN 29 ELSE DaysInMonth[month]

\* the days of the year before the first of the month
OrdinalBefore(year, month) ==
  DaysBefore(month) + (IF month > 2 /\ IsLeap(year) THEN 1 ELSE 0)

\* the text before the first "-" of s (all of s if it has none)
RECURSIVE UptoDash(_)
UptoDash(s) ==
  IF s = "" \/ CharAt(s, 1) = "-" THEN ""
  ELSE CharAt(s, 1) \o UptoDash(SubSeq(s, 2, Len(s)))

\* datetime.strptime(s, "%Y-%m-%d"): a year of four digits, then a month and a
\* day of one or two digits; [ok, year, ordinal], ordinal the day of the year
strptime(s) ==
  LET yStr == UptoDash(s)
      rest1 == SubSeq(s, Len(yStr) + 2, Len(s))
      mStr == UptoDash(rest1)
      dStr == SubSeq(rest1, Len(mStr) + 2, Len(rest1))
      shape == /\ Len(yStr) = 4 /\ AllDigits(yStr)
               /\ Len(mStr) \in {1, 2} /\ AllDigits(mStr)
               /\ Len(dStr) \in {1, 2} /\ AllDigits(dStr)
               /\ Len(s) = Len(yStr) + Len(mStr) + Len(dStr) + 2
      yy == Number(yStr)
      mo == Number(mStr)
      dd == Number(dStr)
  IN  IF shape /\ yy >= 1 /\ mo \in 1..12 /\ dd >= 1 /\ dd <= DaysIn(yy, mo)
      THEN [ok |-> TRUE, year |-> yy, ordinal |-> OrdinalBefore(yy, mo) + dd]
      ELSE [ok |-> FALSE, year |-> 0, ordinal |-> 0]

\* date + timedelta(days=k), then strftime("%Y-%m-%d")
RECURSIVE DatePlus(_, _, _)
DatePlus(year, ordinal, k) ==
  LET o == ordinal + k IN
  IF o > DaysInYear(year) THEN DatePlus(year + 1, 1, o - DaysInYear(year) - 1)
  ELSE IF o < 1 THEN DatePlus(year - 1, DaysInYear(year - 1), o)
  ELSE LET mo == CHOOSE m \in 1..12 :
                   OrdinalBefore(year, m) < o /\ o <= OrdinalBefore(year, m) + DaysIn(year, m)
       IN  Pad4(year) \o "-" \o Pad2(mo) \o "-" \o Pad2(o - OrdinalBefore(year, mo))

\* What the weather service does with a request: kind is "timeout" or
\* "connection" (requests.get raises), "status" (a non-2xx status, so
\* raise_for_status raises), "notjson" (the body is no JSON), "nonobject"
\* (JSON, but no object) or "ok" with the arrays of the "daily" object.
Response(kind, time, tmax, tmin, precip, wind) ==
  [kind |-> kind, time |-> time, temperature_2m_max |-> tmax,
   temperature_2m_min |-> tmin, precipitation_sum |-> precip,
   windspeed_10m_max |-> wind]

NoResponse == Response("none", <<>>, <<>>, <<>>, <<>>, <<>>)
NoRequest == [start_date |-> "", end_date |-> "", latitude |-> "", longitude |-> ""]

\* round(x) of a number: an int
Round0(v) == IF v.t = "int" THEN JInt(v.n) ELSE JInt(RoundHalfEven(v.n, 10))

\* lines 151-152 and 159-160 with the last reading for an index past the end
MetricAtOrLast(arr, i, default) ==
  IF i <= Len(arr) THEN arr[i] ELSE IF arr = <<>> THEN default ELSE arr[Len(arr)]

\* lines 151-152 and 159-160: arr[i] if i < len(arr) else 0
MetricAt(arr, i, default) == IF i <= Len(arr) THEN arr[i] ELSE default

\* line 120 with timedelta(days=num_days)
EndDateExclusive(start, num_days) == DatePlus(start.year, start.ordinal, num_days)

\* lines 120 and 130: end = start + timedelta(days=num_days - 1), formatted
EndDate(start, num_days) == DatePlus(start.year, start.ordinal, num_days - 1)

\* fetch_weather without response.raise_for_status()
fetch_weather_any_status(latitude, longitude, start_date, num_days, resp) ==
  LET start == strptime(start_date) IN
  IF ~start.ok THEN [list |-> <<>>, http |-> 0, request |-> NoRequest]
  ELSE
  LET request == [start_date |-> DatePlus(start.year, start.ordinal, 0),
                  end_date   |-> EndDate(start, num_days),
                  latitude |-> latitude, longitude |-> longitude]
      n == Len(resp.time)
      \* a day whose metric is no number raises (None > 10, round(None))
      DayRaises(i) ==
        \/ ~IsNumber(MetricAt(resp.precipitation_sum, i, JInt(0)))
        \/ ~IsNumber(MetricAt(resp.windspeed_10m_max, i, JInt(0)))
        \/ (i <= Len(resp.temperature_2m_max) /\ ~IsNumber(resp.temperature_2m_max[i]))
        \/ (i <= Len(resp.temperature_2m_min) /\ ~IsNumber(resp.temperature_2m_min[i]))
      Day(i) ==
        [date |-> resp.time[i],
         temp_max |-> IF i <= Len(resp.temperature_2m_max)
                      THEN Str(Round0(resp.temperature_2m_max[i])) ELSE "None",
         temp_min |-> IF i <= Len(resp.temperature_2m_min)
                      THEN Str(Round0(resp.temperature_2m_min[i])) ELSE "None",
         precipitation |-> MetricAt(resp.precipitation_sum, i, JInt(0)),
         windspeed |-> MetricAt(resp.windspeed_10m_max, i, JInt(0)),
         condition |-> get_weather_condition(
                         Tenths(MetricAt(resp.precipitation_sum, i, JInt(0))),
                         Tenths(MetricAt(resp.windspeed_10m_max, i, JInt(0))))]
  IN
  IF resp.kind \notin {"ok", "status"} \/ \E i \in 1..n : DayRaises(i)
  THEN [list |-> <<>>, http |-> 1, request |-> request]
  ELSE [list |-> [i \in 1..n |-> Day(i)], http |-> 1, request |-> request]

\* fetch_weather(latitude, longitude, start_date, num_days) when the service
\* answers resp: [list, http, request], the list returned, the number of HTTP
\* requests made and the date range requested
fetch_weather(latitude, longitude, start_date, num_days, resp) ==
  LET start == strptime(start_date) IN
  IF ~start.ok THEN [list |-> <<>>, http |-> 0, request |-> NoRequest]
  ELSE
  LET request == [start_date |-> DatePlus(start.year, start.ordinal, 0),
                  end_date   |-> EndDate(start, num_days),
                  latitude |-> latitude, longitude |-> longitude]
      n == Len(resp.time)
      \* a day whose metric is no number raises (None > 10, round(None))
      DayRaises(i) ==
        \/ ~IsNumber(MetricAt(resp.precipitation_sum, i, JInt(0)))
        \/ ~IsNumber(MetricAt(resp.windspeed_10m_max, i, JInt(0)))
        \/ (i <= Len(resp.temperature_2m_max) /\ ~IsNumber(resp.temperature_2m_max[i]))
        \/ (i <= Len(resp.temperature_2m_min) /\ ~IsNumber(resp.temperature_2m_min[i]))
      Day(i) ==
        [date |-> resp.time[i],
         temp_max |-> IF i <= Len(resp.temperature_2m_max)
                      THEN Str(Round0(resp.temperature_2m_max[i])) ELSE "None",
         temp_min |-> IF i <= Len(resp.temperature_2m_min)
                      THEN Str(Round0(resp.temperature_2m_min[i])) ELSE "None",
         precipitation |-> MetricAt(resp.precipitation_sum, i, JInt(0)),
         windspeed |-> MetricAt(resp.windspeed_10m_max, i, JInt(0)),
         condition |-> get_weather_condition(
                         Tenths(MetricAt(resp.precipitation_sum, i, JInt(0))),
                         Tenths(MetricAt(resp.windspeed_10m_max, i, JInt(0))))]
  IN
  IF resp.kind # "ok" \/ \E i \in 1..n : DayRaises(i)
  THEN [list |-> <<>>, http |-> 1, request |-> request]
  ELSE [list |-> [i \in 1..n |-> Day(i)], http |-> 1, request |-> request]

\* lines 45-86 of weather_tool.py, the weather service answering resp
WeatherBody(q, c, resp) ==
  IF q.json = "invalid"
  THEN Raise(Exc("JSONDecodeError", "Expecting value: line 1 column 1 (char 0)"), c, {}, 0)
  ELSE IF q.json # "object"
  THEN Raise(Exc("AttributeError", "'list' object has no attribute 'get'"), c, {}, 0)
  ELSE
  LET cityV == get(q.obj, "city", JStr(""))
      startV == get(q.obj, "start_date", JStr(""))
      num_days == IntOf(get(q.obj, "num_days", JInt(DEFAULT_NUM_DAYS)))
      early == FirstExc(<<StrExc(cityV, "strip"), StrExc(startV, "strip"), num_days.exc>>)
  IN
  IF early # NoExc THEN Raise(early, c, {}, 0)
  ELSE
  LET city == strip(cityV.s)
      start_date == strip(startV.s)
  IN
  IF city = "" \/ start_date = ""
  THEN Return(Text("Error: Both city and start_date are required."), c, {}, 0)
  ELSE
  LET coords == get_city_coordinates(city) IN
  IF coords = NoCoordinates
  THEN Return(Text("Error: Coordinates not found for " \o city
                   \o ". Please check the city name."), c, {}, 0)
  ELSE
  LET fw == fetch_weather(coords.latitude, coords.longitude, start_date, num_days.n, resp) IN
  IF fw.list = <<>>
  THEN Return(Text("Error: Could not fetch weather data for " \o city \o "."), c, {}, fw.http)
  ELSE Return([text |-> "Weather Forecast for " \o title(city) \o "\nFrom " \o start_date
                        \o " (" \o ToString(num_days.n) \o " days)",
               options |-> fw.list], c, {}, fw.http)

\* WeatherLookupTool._run(query)
WeatherLookupTool_run(q, c, resp) ==
  Caught(WeatherBody(q, c, resp), "Error: Invalid JSON format.", "Error fetching weather: ")

(***************************************************************************)
(* The resources and the requests the model runs the program on            *)
(***************************************************************************)
Absent == [t |-> "absent", s |-> "", n |-> 0]

\* the JSON object with the keys of fields whose value is not Absent
Object(fields) == [k \in {x \in DOMAIN fields : fields[x] # Absent} |-> fields[k]]

Flight(from, to, price, dep, arr, duration, airline, id) ==
  Object([from |-> from, to |-> to, price |-> price, departure_time |-> dep,
          arrival_time |-> arr, duration_hours |-> duration,
          airline |-> JStr(airline), flight_id |-> JStr(id)])

\* The records of flights.json.  Four fly Delhi to Goa before the sixth is
\* added: two at the same price, one with a precomputed duration, one whose
\* departure time does not parse.  The flight back takes 2 h 27 min.
FlightTable == <<
  Flight(JStr("Delhi"), JStr("Goa"), JInt(4800), JStr("2025-02-15T10:00:00"),
         JStr("2025-02-15T12:30:00"), Absent, "IndiGo", "F1"),
  Flight(JStr("DELHI"), JStr("goa"), JInt(4800), JStr("2025-02-15T06:15:00"),
         JStr("2025-02-15T08:15:00"), JFloat(20), "Vistara", "F2"),
  Flight(JStr("Delhi"), JStr("Goa"), JInt(5200), JStr("soon"),
         JStr("2025-02-15T21:00:00"), Absent, "SpiceJet", "F3"),
  Flight(JStr("Goa"), JStr("Delhi"), JInt(3000), JStr("2025-02-16T09:00:00"),
         JStr("2025-02-16T11:27:00"), Absent, "IndiGo", "F4"),
  Flight(JStr("Delhi"), JStr("Goa"), JInt(3900), JStr("2025-02-15T23:00:00"),
         JStr("2025-02-16T00:30:00"), Absent, "Akasa", "F5"),
  Flight(JStr("Delhi"), JStr("Goa"), JInt(4100), JStr("2025-02-15T14:00:00"),
         JStr("2025-02-15T17:12:00"), Absent, "Air India", "F6") >>

\* how many records of each table the resources hold
MaxRecords == 5

FlightsDoc == ArrayDoc(SubSeq(FlightTable, 1, Min(MaxRecords, Len(FlightTable))))

\* a flights.json whose first record has a null price
BadFlightsDoc == ArrayDoc(<<
  Flight(JStr("Delhi"), JStr("Goa"), JNull, JStr("2025-02-15T10:00:00"),
         JStr("2025-02-15T12:00:00"), Absent, "IndiGo", "B1"),
  FlightTable[1] >>)

FlightRequest(s, t, p) == ObjectQuery(Object([source |-> s, destination |-> t, preference |-> p]))

FlightQueries ==
  {InvalidQuery, NonObjectQuery} \cup
  { FlightRequest(s, JStr("Goa"), Absent) :
      s \in {Absent, JStr(""), JStr("  "), JStr("Delhi"), JStr(" delhi "), JInt(5)} } \cup
  { FlightRequest(JStr("Delhi"), t, JStr("Fastest")) :
      t \in {Absent, JStr("Goa"), JStr(" GOA "), JStr("Pune"), JNull} } \cup
  { FlightRequest(JStr("Delhi"), JStr("Goa"), p) : p \in {JStr("cheapest"), JInt(1)} } \cup
  { FlightRequest(JStr("Goa"), JStr("Delhi"), Absent),
    FlightRequest(Absent, JNull, Absent) }

Hotel(city, name, stars, price, amenities, id) ==
  Object([city |-> city, name |-> JStr(name), stars |-> stars, price_per_night |-> price,
          amenities |-> amenities, hotel_id |-> JStr(id)])

\* The records of hotels.json: two Goa hotels equal in stars and price, one
\* with a fractional rating, one in another city.
HotelTable == <<
  Hotel(JStr("Goa"), "Ibis", JInt(4), JInt(3000), JStr("WiFi, Pool"), "H1"),
  Hotel(JStr("GOA"), "Leela", JFloat(45), JInt(7000), JStr("WiFi, Spa"), "H2"),
  Hotel(JStr("Delhi"), "Oberoi", JInt(5), JInt(12000), JStr("WiFi"), "H3"),
  Hotel(JStr("Goa"), "Novotel", JInt(4), JInt(3000), Absent, "H4"),
  Hotel(JStr("Goa"), "Taj", JInt(5), JInt(9000), JStr("WiFi, Beach"), "H5"),
  Hotel(JStr("Goa"), "Zostel", JInt(3), JInt(1500), JStr("WiFi"), "H6") >>

HotelsDoc == ArrayDoc(SubSeq(HotelTable, 1, Min(MaxRecords, Len(HotelTable))))

\* a hotels.json with a record whose city is a number
BadHotelsDoc == ArrayDoc(<<
  HotelTable[1],
  Hotel(JInt(7), "Nowhere", JInt(3), JInt(1000), Absent, "B2") >>)

HotelRequest(c, m, x) ==
  ObjectQuery(Object([city |-> c, min_rating |-> m, max_price_per_night |-> x]))

HotelQueries ==
  {InvalidQuery, NonObjectQuery} \cup
  { HotelRequest(c, Absent, Absent) :
      c \in {Absent, JStr(""), JStr("Goa"), JStr(" goa "), JStr("Pune"), JInt(5)} } \cup
  { HotelRequest(JStr("Goa"), m, Absent) : m \in {JInt(4), JFloat(45), JStr("high")} } \cup
  { HotelRequest(JStr("Goa"), Absent, x) : x \in {JInt(0), JInt(3000), JStr("cheap")} } \cup
  { HotelRequest(Absent, JStr("high"), Absent),
    HotelRequest(JStr("Goa"), JInt(5), JInt(8000)) }

Place(city, name, type, rating, description, id) ==
  Object([city |-> city, name |-> JStr(name), type |-> type, rating |-> rating,
          description |-> description, place_id |-> JStr(id)])

\* The records of places.json: two Goa beaches of equal rating, one place
\* below the default minimum rating, one in another city.
PlaceTable == <<
  Place(JStr("Goa"), "Baga Beach", JStr("Beach"), JFloat(45), JStr("Sandy"), "P1"),
  Place(JStr("Goa"), "Fort Aguada", JStr("Fort"), JFloat(42), Absent, "P2"),
  Place(JStr("goa"), "Calangute", JStr("beach"), JFloat(45), JStr("Busy"), "P3"),
  Place(JStr("Delhi"), "Red Fort", JStr("Fort"), JFloat(46), JStr("Mughal"), "P4"),
  Place(JStr("Goa"), "Anjuna Market", JStr("Market"), JFloat(34), JStr("Flea"), "P5"),
  Place(JStr("Goa"), "Palolem", JStr("Beach"), JInt(5), JStr("Quiet"), "P6"),
  Place(JStr("Goa"), "Se Cathedral", JStr("Church"), JFloat(42), JStr("Old Goa"), "P7"),
  Place(JStr("GOA"), "Dudhsagar", JStr("Waterfall"), JFloat(39), Absent, "P8"),
  Place(JStr("Goa"), "Chapora Fort", JStr("Fort"), JFloat(45), JStr("Hilltop"), "P9") >>

\* how many records places.json holds: more of one city than a report lists
MaxPlaces == 8

PlacesDoc == ArrayDoc(SubSeq(PlaceTable, 1, Min(MaxPlaces, Len(PlaceTable))))

\* a places.json with a record whose rating is null
BadPlacesDoc == ArrayDoc(<<
  PlaceTable[1],
  Place(JStr("Goa"), "Unrated", JStr("Beach"), JNull, Absent, "B3") >>)

PlaceRequest(c, k, m) == ObjectQuery(Object([city |-> c, category |-> k, min_rating |-> m]))

PlaceQueries ==
  {InvalidQuery, NonObjectQuery} \cup
  { PlaceRequest(c, Absent, Absent) :
      c \in {Absent, JStr(""), JStr("Goa"), JStr(" GOA "), JStr("Pune"), JNull} } \cup
  { PlaceRequest(JStr("Goa"), k, Absent) :
      k \in {JStr("Beach"), JStr(" beach "), JStr("Museum"), JInt(1)} } \cup
  { PlaceRequest(JStr("Goa"), Absent, m) : m \in {JInt(4), JFloat(45), JStr("x")} } \cup
  { PlaceRequest(Absent, Absent, JStr("x")) }

BudgetRequest(f, h, n, e) ==
  ObjectQuery(Object([flight_price |-> f, hotel_price_per_night |-> h,
                      num_nights |-> n, daily_expense |-> e]))

BudgetQueries ==
  {InvalidQuery, NonObjectQuery,
   BudgetRequest(JInt(4800), JInt(3200), JInt(4), JInt(2000)),
   BudgetRequest(JInt(4800), JInt(3200), JInt(4), JInt(0)),
   BudgetRequest(JInt(4800), JInt(4500), JInt(4), Absent),
   BudgetRequest(JInt(7200), JInt(3200), JInt(4), JInt(2000)),
   BudgetRequest(JFloat(72005), JInt(3200), JInt(4), JInt(2000)),
   BudgetRequest(JInt(4800), JInt(4000), JInt(4), Absent),
   BudgetRequest(JInt(1000), JFloat(40005), JInt(1), JInt(0)),
   BudgetRequest(Absent, Absent, Absent, Absent),
   BudgetRequest(JStr("x"), JInt(3200), JInt(4), Absent),
   BudgetRequest(JInt(4800), JNull, JInt(4), Absent),
   BudgetRequest(JInt(4800), JInt(3200), JFloat(25), Absent),
   BudgetRequest(JInt(4800), JInt(3200), JStr("x"), Absent)}

\* the requests whose numbers calculate_budget is called with: the three
\* positional arguments are numbers, num_nights a whole number
BudgetCalls ==
  {q \in BudgetQueries :
     /\ q.json = "object"
     /\ {"flight_price", "hotel_price_per_night", "num_nights"} \subseteq DOMAIN q.obj
     /\ IsNumber(q.obj["flight_price"]) /\ IsNumber(q.obj["hotel_price_per_night"])
     /\ q.obj["num_nights"].t = "int"
     /\ "daily_expense" \in DOMAIN q.obj => IsNumber(q.obj["daily_expense"])}

WeatherRequest(c, s, n) == ObjectQuery(Object([city |-> c, start_date |-> s, num_days |-> n]))

WeatherQueries ==
  {InvalidQuery, NonObjectQuery} \cup
  { WeatherRequest(c, JStr("2025-02-15"), Absent) :
      c \in {Absent, JStr(" GOA "), JStr("Atlantis"), JInt(1)} } \cup
  { WeatherRequest(JStr("Goa"), s, JInt(3)) :
      s \in {Absent, JStr("2025-12-30"), JStr("15/02/2025"), JNull} } \cup
  { WeatherRequest(c, JStr("2025-02-27"), JStr("x")) : c \in {Absent, JStr("goa")} }

\* the ways the weather service answers
FullResponse ==
  Response("ok", <<"2025-02-15", "2025-02-16", "2025-02-17">>,
           <<JFloat(315), JFloat(305), JInt(30)>>, <<JFloat(224), JFloat(225), JInt(21)>>,
           <<JFloat(120), JFloat(50), JInt(0)>>, <<JFloat(100), JFloat(320), JFloat(200)>>)

Responses == {
  FullResponse,
  Response("timeout", <<>>, <<>>, <<>>, <<>>, <<>>),
  Response("status", <<"2025-02-15">>, <<JFloat(315)>>, <<JFloat(224)>>, <<JInt(0)>>,
           <<JInt(0)>>),
  Response("notjson", <<>>, <<>>, <<>>, <<>>, <<>>),
  Response("ok", <<>>, <<>>, <<>>, <<>>, <<>>),
  Response("ok", <<"2025-02-15", "2025-02-16">>,
           <<JFloat(315)>>, <<>>, <<JInt(2)>>, <<JFloat(50)>>),
  Response("ok", <<"2025-02-15">>, <<JNull>>, <<JFloat(224)>>, <<JInt(0)>>, <<JInt(0)>>) }

\* the requests on which every answer of the service is tried
ProbedQueries == {WeatherRequest(JStr(" GOA "), JStr("2025-02-15"), Absent),
                  WeatherRequest(JStr("Goa"), JStr("15/02/2025"), JInt(3))}

WeatherCalls == (WeatherQueries \X {FullResponse}) \cup (ProbedQueries \X Responses)

\* The file systems the program is started on: every resource in place, none
\* in place, and each resource in turn unreadable, null or ill-typed.
Scenario(f, h, p) ==
  [x \in Files |-> IF x = FLIGHTS_PATH THEN f ELSE IF x = HOTELS_PATH THEN h ELSE p]

FileSystems == {
  Scenario(FlightsDoc, HotelsDoc, PlacesDoc),
  Scenario(AbsentDoc, AbsentDoc, AbsentDoc),
  Scenario(GarbageDoc, NullDoc, BadPlacesDoc),
  Scenario(NullDoc, BadHotelsDoc, GarbageDoc),
  Scenario(BadFlightsDoc, GarbageDoc, NullDoc) }

(***************************************************************************)
(* The state machine                                                       *)
(***************************************************************************)
EmptyCache == [k \in {} |-> NoData]

\* what the caller of an operation sees, with what the operation did on the
\* way: the exception that left it, its report or data, the documents it
\* read from disk, the HTTP requests it made and the service's answer
Outcome(op, q, path, exc, report, data, read, http, resp) ==
  [op |-> op, query |-> q, path |-> path, exc |-> exc, report |-> report,
   data |-> data, read |-> read, http |-> http, response |-> resp]

NoOutcome == Outcome("", InvalidQuery, "", NoExc, NoReport, NoData, {}, 0, NoResponse)

\* nobody is inside load_json: every operation runs to completion on its own
NoCallers == [at |-> <<>>, owner |-> <<>>]

Init ==
  /\ doc \in FileSystems
  /\ cache = EmptyCache
  /\ res = NoOutcome
  /\ callers = NoCallers

\* one invocation of a tool whose _run gave outcome r on request q
Invoke(op, q, r, resp) ==
  /\ cache' = r.cache
  /\ res' = Outcome(op, q, "", r.exc, r.report, NoData, r.read, r.http,
                    IF r.http > 0 THEN resp ELSE NoResponse)
  /\ UNCHANGED <<doc, callers>>

FlightSearch == \E q \in FlightQueries :
  Invoke("flight_search", q, FlightSearchTool_run(q, cache, doc), NoResponse)

HotelSearch == \E q \in HotelQueries :
  Invoke("hotel_recommendation", q, HotelRecommendationTool_run(q, cache, doc), NoResponse)

PlaceSearch == \E q \in PlaceQueries :
  Invoke("places_discovery", q, PlacesDiscoveryTool_run(q, cache, doc), NoResponse)

BudgetEstimate == \E q \in BudgetQueries :
  Invoke("budget_estimation", q, BudgetEstimationTool_run(q, cache), NoResponse)

\* calculate_budget called with the numbers of request q
CalculateBudget == \E q \in BudgetCalls :
  LET r == calculate_budget(Tenths(q.obj["flight_price"]),
                            Tenths(q.obj["hotel_price_per_night"]),
                            q.obj["num_nights"].n,
                            get(q.obj, "daily_expense", JNull))
  IN  /\ res' = Outcome("calculate_budget", q, "", NoExc,
                        [text |-> "budget", options |-> <<r>>], NoData, {}, 0, NoResponse)
      /\ UNCHANGED <<doc, cache, callers>>

WeatherLookup == \E call \in WeatherCalls :
  Invoke("weather_lookup", call[1], WeatherLookupTool_run(call[1], cache, call[2]), call[2])

Next == FlightSearch \/ HotelSearch \/ PlaceSearch \/ BudgetEstimate \/ WeatherLookup
          \/ CalculateBudget

Spec == Init /\ [][Next]_vars

(***************************************************************************)
(* The DataLoader on its own, over a file system that changes              *)
(***************************************************************************)
\* the documents written to each file while the program runs
WrittenDocs(file) ==
  IF file = FLIGHTS_PATH THEN {AbsentDoc, GarbageDoc, NullDoc, FlightsDoc}
  ELSE IF file = HOTELS_PATH THEN {AbsentDoc, HotelsDoc}
  ELSE {}

LoadedPaths == {FLIGHTS_PATH, FLIGHTS_ALIAS, HOTELS_PATH}

InitLoader ==
  /\ doc \in {Scenario(FlightsDoc, HotelsDoc, PlacesDoc),
              Scenario(AbsentDoc, AbsentDoc, AbsentDoc)}
  /\ cache = EmptyCache
  /\ res = NoOutcome
  /\ callers = NoCallers

\* DataLoader.load_json(path), called directly
LoadJson == \E path \in LoadedPaths :
  LET r == load_json(path, cache, doc) IN
  /\ cache' = r.cache
  /\ res' = Outcome("load_json", InvalidQuery, path, r.exc, NoReport, r.data, r.read, 0,
                    NoResponse)
  /\ UNCHANGED <<doc, callers>>

\* DataLoader.clear_cache()
ClearCache ==
  /\ cache' = clear_cache(cache)
  /\ res' = Outcome("clear_cache", InvalidQuery, "", NoExc, NoReport, NoData, {}, 0, NoResponse)
  /\ UNCHANGED <<doc, callers>>

\* DataLoader.get_cache_info()
GetCacheInfo ==
  LET r == get_cache_info(cache) IN
  /\ res' = Outcome("get_cache_info", InvalidQuery, "", r.exc,
                    [text |-> "cache_info",
                     options |-> <<[cached_files |-> r.cached_files,
                                    total_records |-> r.total_records]>>],
                    NoData, {}, 0, NoResponse)
  /\ UNCHANGED <<doc, cache, callers>>

\* the environment replaces, creates or removes a document
WriteDoc == \E file \in Files : \E d \in WrittenDocs(file) :
  /\ d # doc[file]
  /\ doc' = [doc EXCEPT ![file] = d]
  /\ res' = Outcome("write", InvalidQuery, file, NoExc, NoReport, NoData, {}, 0, NoResponse)
  /\ UNCHANGED <<cache, callers>>

NextLoader == LoadJson \/ ClearCache \/ GetCacheInfo \/ WriteDoc

SpecLoader == InitLoader /\ [][NextLoader]_vars

(***************************************************************************)
(* get_weather_condition on its own, over a grid of readings               *)
(***************************************************************************)
\* precipitation (mm) and wind speed (km/h) in tenths, on both sides of every
\* threshold
PrecipitationValues == {0, 5, 19, 20, 21, 50, 99, 100, 101, 120, 500}
WindspeedValues == {0, 50, 149, 150, 151, 200, 299, 300, 301, 400}

Reading(precipitation, windspeed) ==
  ObjectQuery([precipitation |-> JFloat(precipitation), windspeed |-> JFloat(windspeed)])

InitCondition ==
  /\ doc = Scenario(FlightsDoc, HotelsDoc, PlacesDoc)
  /\ cache = EmptyCache
  /\ res = NoOutcome
  /\ callers = NoCallers

\* get_weather_condition(precipitation, windspeed)
WeatherCondition == \E precipitation \in PrecipitationValues : \E windspeed \in WindspeedValues :
  /\ res' = Outcome("get_weather_condition", Reading(precipitation, windspeed), "", NoExc,
                    Text(get_weather_condition(precipitation, windspeed)),
                    NoData, {}, 0, NoResponse)
  /\ UNCHANGED <<doc, cache, callers>>

NextCondition == WeatherCondition

SpecCondition == InitCondition /\ [][NextCondition]_vars

(***************************************************************************)
(* load_json entered by several callers at once (one thread per session).  *)
(* A caller runs load_json line by line; another caller may run between    *)
(* any two of its steps, because no lock is taken in load_json.            *)
(***************************************************************************)
Callers == {"caller1", "caller2"}

ConcurrentPaths == {FLIGHTS_PATH, HOTELS_PATH}

\* a caller's position in load_json and its locals: the path it was called
\* with, the data it parsed or fetched from the cache, the exception it left
\* with, whether it opened the document, and which caller's json.load built
\* the object it holds
Local(pc, path, data, exc, read, obj) ==
  [pc |-> pc, path |-> path, data |-> data, exc |-> exc, read |-> read, obj |-> obj]

Idle == Local("idle", "", NoData, NoExc, FALSE, "")

InitConcurrent ==
  /\ doc \in {Scenario(FlightsDoc, HotelsDoc, PlacesDoc),
              Scenario(GarbageDoc, NullDoc, PlacesDoc),
              Scenario(FlightsDoc, AbsentDoc, PlacesDoc)}
  /\ cache = EmptyCache
  /\ res = NoOutcome
  /\ callers = [at |-> [t \in Callers |-> Idle], owner |-> <<>>]

\* caller t moves to the local state l
Step(t, l) ==
  /\ callers' = [callers EXCEPT !.at[t] = l]
  /\ UNCHANGED <<doc, cache, res>>

\* load_json(file_path) is entered: file_path_str = str(file_path)
EnterLoadJson(t) == \E path \in ConcurrentPaths :
  /\ callers.at[t].pc = "idle"
  /\ Step(t, Local("check", path, NoData, NoExc, FALSE, ""))

\* if file_path_str in cls._cache: return cls._cache[file_path_str]
CheckCache(t) ==
  LET l == callers.at[t] IN
  /\ l.pc = "check"
  /\ IF l.path \in DOMAIN cache
     THEN Step(t, [l EXCEPT !.pc = "done", !.data = cache[l.path],
                            !.obj = callers.owner[l.path]])
     ELSE Step(t, [l EXCEPT !.pc = "exists"])

\* if not file_path.exists(): raise FileNotFoundError
CheckExists(t) ==
  LET l == callers.at[t] IN
  /\ l.pc = "exists"
  /\ IF doc[FileOf(l.path)].kind = "absent"
     THEN Step(t, [l EXCEPT !.pc = "done",
                     !.exc = Exc("FileNotFoundError", "Data file not found: " \o l.path)])
     ELSE Step(t, [l EXCEPT !.pc = "open"])

\* with open(file_path) as f: data = json.load(f)
OpenAndParse(t) ==
  LET l == callers.at[t] IN
  /\ l.pc = "open"
  /\ IF doc[FileOf(l.path)].kind = "garbage"
     THEN Step(t, [l EXCEPT !.pc = "done", !.read = TRUE,
                     !.exc = Exc("JSONDecodeError", "Expecting value: line 1 column 1 (char 0)")])
     ELSE Step(t, [l EXCEPT !.pc = "store", !.read = TRUE, !.obj = t,
                     !.data = json_load(doc[FileOf(l.path)])])

\* cls._cache[file_path_str] = data
StoreInCache(t) ==
  LET l == callers.at[t] IN
  /\ l.pc = "store"
  /\ cache' = [k \in DOMAIN cache \cup {l.path} |-> IF k = l.path THEN l.data ELSE cache[k]]
  /\ callers' = [at |-> [callers.at EXCEPT ![t] = [l EXCEPT !.pc = "return"]],
                 owner |-> [k \in DOMAIN cache \cup {l.path} |->
                              IF k = l.path THEN l.obj ELSE callers.owner[k]]]
  /\ UNCHANGED <<doc, res>>

\* the log line with len(data), then return data
LogAndReturn(t) ==
  LET l == callers.at[t] IN
  /\ l.pc = "return"
  /\ IF ~HasLen(l.data)
     THEN Step(t, [l EXCEPT !.pc = "done", !.data = NoData, !.obj = "",
                     !.exc = TypeError("object of type 'NoneType' has no len()")])
     ELSE Step(t, [l EXCEPT !.pc = "done"])

NextConcurrent == \E t \in Callers :
  \/ EnterLoadJson(t)
  \/ CheckCache(t)
  \/ CheckExists(t)
  \/ OpenAndParse(t)
  \/ StoreInCache(t)
  \/ LogAndReturn(t)

SpecConcurrent == InitConcurrent /\ [][NextConcurrent]_vars

(***************************************************************************)
(* fetch_weather as the weather tool calls it, the service answering with  *)
(* one date per requested day and with metric arrays of any length         *)
(***************************************************************************)
\* lines 47-49, 55 and 60-65 of weather_tool.py: the arguments of the call of
\* fetch_weather for a request that reaches it
FetchArgs(q) ==
  [coords |-> get_city_coordinates(strip(q.obj["city"].s)),
   start_date |-> strip(q.obj["start_date"].s),
   num_days |-> IntOf(get(q.obj, "num_days", JInt(DEFAULT_NUM_DAYS))).n]

StartDates == {"2025-12-30", "2024-02-27", "2025-02-27", " 2025-3-1 ", "15/02/2025",
               "2025-02-29"}

NumDayValues == {Absent, JInt(0), JInt(1), JStr("2"), JFloat(39)}

FetchQueries ==
  { WeatherRequest(JStr(" delhi "), JStr(s), n) : s \in StartDates, n \in NumDayValues }

\* a week of readings, in tenths: maximum and minimum temperature (C),
\* precipitation (mm) and wind speed (km/h)
WeekMax == <<JFloat(315), JFloat(305), JInt(30), JFloat(295), JFloat(325), JInt(31),
             JFloat(285)>>
WeekMin == <<JFloat(224), JFloat(225), JInt(21), JFloat(215), JFloat(235), JInt(22),
             JFloat(205)>>
WeekRain == <<JFloat(120), JFloat(50), JInt(0), JFloat(20), JFloat(21), JInt(10),
              JFloat(101)>>
WeekWind == <<JFloat(100), JFloat(320), JFloat(200), JFloat(150), JFloat(151), JInt(30),
              JFloat(301)>>

Take(seq, k) == SubSeq(seq, 1, IF k < 0 THEN 0 ELSE Min(k, Len(seq)))

\* The answers of the service to a request: a failure, or the dates of the
\* requested range with the metric arrays complete, one short or missing (an
\* end date before the start date is refused with status 400).
ServiceAnswers(request) ==
  IF request = NoRequest THEN {NoResponse}
  ELSE
  LET start == strptime(request.start_date)
      days == CHOOSE n \in 0..Len(WeekMax) :
                \/ (n = 0 /\ \A k \in 1..Len(WeekMax) :
                               DatePlus(start.year, start.ordinal, k - 1) # request.end_date)
                \/ (n > 0 /\ DatePlus(start.year, start.ordinal, n - 1) = request.end_date)
      dates == [i \in 1..days |-> DatePlus(start.year, start.ordinal, i - 1)]
      lengths == {days, days - 1, 0}
  IN  IF days = 0 THEN {Response("status", <<>>, <<>>, <<>>, <<>>, <<>>)}
      ELSE {Response("timeout", <<>>, <<>>, <<>>, <<>>, <<>>)} \cup
           { Response("ok", dates, Take(WeekMax, a), Take(WeekMin, b),
                      Take(WeekRain, c), Take(WeekWind, d)) :
               a \in lengths, b \in {days, 0}, c \in {days, days - 1},
               d \in {days, days - 1} }

\* what a call of fetch_weather did and returned
Fetched(q, fw, resp, report) ==
  [op |-> "fetch_weather", query |-> q, request |-> fw.request, list |-> fw.list,
   http |-> fw.http, response |-> resp, report |-> report]

InitFetch ==
  /\ doc = Scenario(FlightsDoc, HotelsDoc, PlacesDoc)
  /\ cache = EmptyCache
  /\ res = NoOutcome
  /\ callers = NoCallers

\* the weather tool run on q: its call of fetch_weather and its report
FetchWeather == \E q \in FetchQueries :
  LET a == FetchArgs(q)
      Call(resp) == fetch_weather(a.coords.latitude, a.coords.longitude, a.start_date,
                                  a.num_days, resp)
  IN  \E resp \in ServiceAnswers(Call(NoResponse).request) :
        /\ res' = Fetched(q, Call(resp), resp, WeatherLookupTool_run(q, cache, resp).report)
        /\ UNCHANGED <<doc, cache, callers>>

NextFetch == FetchWeather

SpecFetch == InitFetch /\ [][NextFetch]_vars

(***************************************************************************)
(* filter_data                                                             *)
(***************************************************************************)
\* the test of line 120 without .lower()
ItemMatchesExactCase(item, key, value) ==
  key \in DOMAIN item /\ Str(item[key]) = Str(value)

\* line 120: key in item and str(item[key]).lower() == str(value).lower()
ItemMatches(item, key, value) ==
  key \in DOMAIN item /\ lower(Str(item[key])) = lower(Str(value))

\* the loop of lines 116-121 over the keys not yet visited (each pass keeps
\* the items that pass its test, so the order of the keys does not matter)
RECURSIVE FilterBy(_, _, _)
FilterBy(filtered, filters, keys) ==
  IF keys = {} THEN filtered
  ELSE LET key == CHOOSE k \in keys : TRUE
           value == filters[key]
       IN  FilterBy(IF value # JNull
                    THEN SelectSeq(filtered, LAMBDA item : ItemMatches(item, key, value))
                    ELSE filtered,
                    filters, keys \ {key})

\* filter_data(data, filters): the list returned; None is the JSON null
filter_data(data, filters) ==
  IF DOMAIN filters = {} THEN data
  ELSE FilterBy(data, filters, DOMAIN filters)

\* records to filter: two spellings of a city, an int and a float rating, a
\* record whose city is null and one without city
FilterItems == {
  Object([city |-> JStr("Goa"), stars |-> JInt(5)]),
  Object([city |-> JStr("GOA"), stars |-> JFloat(50)]),
  Object([city |-> JNull, stars |-> JInt(4)]),
  Object([city |-> Absent, stars |-> JInt(5)]) }

MaxFiltered == 2

FilterLists ==
  UNION { [1..n -> FilterItems] : n \in 0..MaxFiltered } \cup
  { << Object([city |-> JStr("goa"), stars |-> JInt(5)]),
       Object([city |-> JStr("Delhi"), stars |-> JInt(5)]),
       Object([city |-> JStr("Goa"), stars |-> JFloat(50)]),
       Object([city |-> JStr("GOA"), stars |-> JInt(5)]) >> }

FilterSets == {
  Object([city |-> Absent]),
  Object([city |-> JStr("goa")]),
  Object([city |-> JStr("Goa"), stars |-> JInt(5)]),
  Object([city |-> JNull]),
  Object([city |-> JNull, stars |-> JStr("5.0")]),
  Object([city |-> JStr("None")]),
  Object([name |-> JStr("Taj")]) }

\* what a call of filter_data was given, left behind and returned
Filtered(data, filters, result) ==
  [op |-> "filter_data", data |-> data, filters |-> filters, result |-> result]

InitFilter ==
  /\ doc = Scenario(FlightsDoc, HotelsDoc, PlacesDoc)
  /\ cache = EmptyCache
  /\ res = NoOutcome
  /\ callers = NoCallers

\* filter_data(data, filters); the comprehension of lines 118-121 builds new
\* lists, so the list passed in is as it was
FilterData == \E data \in FilterLists : \E filters \in FilterSets :
  /\ res' = Filtered(data, filters, filter_data(data, filters))
  /\ UNCHANGED <<doc, cache, callers>>

NextFilter == FilterData

SpecFilter == InitFilter /\ [][NextFilter]_vars

(***************************************************************************)
(* TravelAgent.plan_trip and the query it builds                           *)
(*                                                                         *)
(* A preferences dictionary is [t |-> "dict", obj |-> keys to values] and  *)
(* a list value [t |-> "list", items |-> values].  The rupee sign and the  *)
(* star of the query text are written "Rs." and "*".                       *)
(***************************************************************************)
Prefs(obj) == [t |-> "dict", obj |-> obj]
JList(items) == [t |-> "list", items |-> items]

\* bool(v), as "if budget:" and "if preferences.get(...):" take it
Truth(v) == CASE v.t = "str" -> v.s # ""
              [] v.t \in {"int", "float"} -> v.n # 0
              [] v.t = "list" -> v.items # <<>>
              [] v.t = "dict" -> DOMAIN v.obj # {}
              [] OTHER -> FALSE

\* preferences.get(key): None for a key the dictionary lacks
PrefGet(preferences, key) ==
  IF key \in DOMAIN preferences.obj THEN preferences.obj[key] ELSE JNull

RECURSIVE JoinComma(_)
\* ', '.join(parts) for parts that are all text
JoinComma(parts) ==
  IF parts = <<>> THEN ""
  ELSE IF Len(parts) = 1 THEN parts[1]
  ELSE parts[1] \o ", " \o JoinComma(Tail(parts))

\* the first item of a list that is no text, 0 when all are
FirstNonStr(items) ==
  IF \E i \in 1..Len(items) : items[i].t # "str"
  THEN CHOOSE i \in 1..Len(items) :
         items[i].t # "str" /\ \A j \in 1..(i - 1) : items[j].t = "str"
  ELSE 0

\* ', '.join(v): a text is joined letter by letter, a list needs text items,
\* anything else is no iterable
JoinInterests(v) ==
  IF v.t = "str"
  THEN [exc |-> NoExc, text |-> JoinComma([i \in 1..Len(v.s) |-> CharAt(v.s, i)])]
  ELSE IF v.t = "list"
  THEN IF FirstNonStr(v.items) = 0
       THEN [exc |-> NoExc, text |-> JoinComma([i \in 1..Len(v.items) |-> v.items[i].s])]
       ELSE [exc |-> TypeError("sequence item " \o ToString(FirstNonStr(v.items) - 1)
                                \o ": expected str instance, "
                                \o TypeName(v.items[FirstNonStr(v.items)]) \o " found"),
             text |-> ""]
  ELSE [exc |-> TypeError("can only join an iterable"), text |-> ""]

QueryHead(source, destination, start_date, num_days) ==
  "Plan a " \o Str(num_days) \o "-day trip from " \o source \o " to " \o destination
  \o " starting on " \o start_date \o ".\n\nRequirements:\n"
  \o "- Find the best flight options from " \o source \o " to " \o destination \o "\n"
  \o "- Recommend hotels in " \o destination \o "\n"
  \o "- Suggest places to visit based on interests\n"
  \o "- Provide weather forecast for the travel dates\n"
  \o "- Create a detailed day-wise itinerary\n"
  \o "- Calculate the complete trip budget\n\n"

QueryTail == "\nPlease provide a comprehensive itinerary with all details."

\* the "Preferences:" block of the query, or the exception that ends it
PreferenceLines(preferences) ==
  IF preferences.t # "dict"
  THEN [exc |-> AttributeError(preferences, "get"), text |-> ""]
  ELSE LET flight == PrefGet(preferences, "flight_preference")
           rating == PrefGet(preferences, "hotel_rating")
           interests == PrefGet(preferences, "interests")
           joined == JoinInterests(interests)
           flightLine == IF Truth(flight) THEN "- Flight: " \o Str(flight) \o "\n" ELSE ""
           ratingLine == IF Truth(rating)
                         THEN "- Hotel minimum rating: " \o Str(rating) \o "*\n" ELSE ""
       IN  IF Truth(interests) /\ joined.exc # NoExc
           THEN [exc |-> joined.exc, text |-> ""]
           ELSE [exc |-> NoExc,
                 text |-> "\nPreferences:\n" \o flightLine \o ratingLine
                          \o (IF Truth(interests)
                              THEN "- Interests: " \o joined.text \o "\n" ELSE "")]

_build_query(source, destination, start_date, num_days, budget, preferences) ==
  LET head == QueryHead(source, destination, start_date, num_days)
      lines == IF Truth(preferences) THEN PreferenceLines(preferences)
               ELSE [exc |-> NoExc, text |-> ""]
  IN  IF Truth(budget) /\ CommaRaises(budget)
      THEN [exc |-> CommaError(budget), query |-> ""]
      ELSE IF lines.exc # NoExc
      THEN [exc |-> lines.exc, query |-> ""]
      ELSE [exc |-> NoExc,
            query |-> head
                      \o (IF Truth(budget)
                          THEN "- Total budget constraint: Rs." \o Comma(budget) \o "\n"
                          ELSE "")
                      \o lines.text \o QueryTail]

\* what agent_executor.invoke does with the query: it raises, or it returns
\* a dictionary that may lack "output" or "intermediate_steps"
Ran(exc, result) == [exc |-> exc, result |-> result]
NoInput == [input |-> "", chat_history |-> ""]
NoResult == [success |-> FALSE]

\* result.get(key, default)
ResultGet(result, key, default) ==
  IF key \in DOMAIN result THEN result[key] ELSE default

Failure(e) ==
  [success |-> FALSE, error |-> e.msg, itinerary |-> "", intermediate_steps |-> <<>>]

\* plan_trip without its except clause
plan_trip_uncaught(source, destination, start_date, num_days, budget, preferences, ran) ==
  LET built == _build_query(source, destination, start_date, num_days, budget, preferences)
  IN  IF built.exc # NoExc
      THEN [escaped |-> built.exc, invoked |-> 0, input |-> NoInput, result |-> NoResult]
      ELSE IF ran.exc # NoExc
      THEN [escaped |-> ran.exc, invoked |-> 1,
            input |-> [input |-> built.query, chat_history |-> ""], result |-> NoResult]
      ELSE [escaped |-> NoExc, invoked |-> 1,
            input |-> [input |-> built.query, chat_history |-> ""],
            result |-> [success |-> TRUE,
                        itinerary |-> ResultGet(ran.result, "output", ""),
                        intermediate_steps |->
                          ResultGet(ran.result, "intermediate_steps", <<>>),
                        query |-> built.query]]

\* plan_trip: "escaped" is the exception that leaves it, "invoked" the number
\* of calls of the executor, "input" what the executor was given
plan_trip(source, destination, start_date, num_days, budget, preferences, ran) ==
  LET built == _build_query(source, destination, start_date, num_days, budget, preferences)
  IN  IF built.exc # NoExc
      THEN [escaped |-> IF built.exc.exc \in ExceptionClasses THEN NoExc ELSE built.exc,
            invoked |-> 0, input |-> NoInput,
            result |-> IF built.exc.exc \in ExceptionClasses
                       THEN Failure(built.exc) ELSE NoResult]
      ELSE IF ran.exc # NoExc
      THEN [escaped |-> IF ran.exc.exc \in ExceptionClasses THEN NoExc ELSE ran.exc,
            invoked |-> 1,
            input |-> [input |-> built.query, chat_history |-> ""],
            result |-> IF ran.exc.exc \in ExceptionClasses
                       THEN Failure(ran.exc) ELSE NoResult]
      ELSE [escaped |-> NoExc, invoked |-> 1,
            input |-> [input |-> built.query, chat_history |-> ""],
            result |-> [success |-> TRUE,
                        itinerary |-> ResultGet(ran.result, "output", ""),
                        intermediate_steps |->
                          ResultGet(ran.result, "intermediate_steps", <<>>),
                        query |-> built.query]]

(***************************************************************************)
(* SpecAgent: plan_trip called with the trips a caller can ask for and the *)
(* outcomes the executor can have                                          *)
(***************************************************************************)
TripBudgets == {JNull, JInt(0), JInt(50000), JFloat(500005), JStr("50000")}

TripPreferences ==
  { JNull,
    Prefs(<<>>),
    JStr("cheapest"),
    Prefs([flight_preference |-> JStr("cheapest"), hotel_rating |-> JFloat(40),
           interests |-> JList(<<JStr("Beach"), JStr("Heritage")>>)]),
    Prefs([flight_preference |-> JStr(""), hotel_rating |-> JInt(0),
           interests |-> JList(<<>>)]),
    Prefs([hotel_rating |-> JInt(4)]),
    Prefs([interests |-> JStr("Sea")]),
    Prefs([interests |-> JInt(3)]),
    Prefs([interests |-> JList(<<JStr("Beach"), JInt(3)>>)]) }

ExecutorOutcomes ==
  { Ran(NoExc, [output |-> "Day 1: Baga beach",
                intermediate_steps |-> <<"search_flights", "search_hotels">>]),
    Ran(NoExc, [output |-> "Agent stopped due to iteration limit or time limit."]),
    Ran(NoExc, [intermediate_steps |-> <<"search_flights">>]),
    Ran(NoExc, <<>>),
    Ran(ValueError("Rate limit reached for model"), <<>>),
    Ran(TypeError("'NoneType' object is not subscriptable"), <<>>) }

Planned(num_days, budget, preferences, ran, outcome) ==
  [op |-> "plan_trip", num_days |-> num_days, budget |-> budget,
   preferences |-> preferences, ran |-> ran, outcome |-> outcome]

InitAgent ==
  /\ doc = Scenario(FlightsDoc, HotelsDoc, PlacesDoc)
  /\ cache = EmptyCache
  /\ callers = NoCallers
  /\ res = [op |-> "", num_days |-> JInt(0), budget |-> JNull, preferences |-> JNull,
            ran |-> Ran(NoExc, <<>>),
            outcome |-> [escaped |-> NoExc, invoked |-> 0, input |-> NoInput,
                         result |-> NoResult]]

PlanTrip ==
  \E num_days \in {JInt(1), JInt(5)}, budget \in TripBudgets,
     preferences \in TripPreferences, ran \in ExecutorOutcomes :
    /\ res' = Planned(num_days, budget, preferences, ran,
                      plan_trip("Delhi", "Goa", "2025-02-15", num_days,
                                budget, preferences, ran))
    /\ UNCHANGED <<doc, cache, callers>>

NextAgent == PlanTrip

SpecAgent == InitAgent /\ [][NextAgent]_vars

(***************************************************************************)
(* Properties of the tools and of the loader                               *)
(***************************************************************************)
ToolOps == {"flight_search", "hotel_recommendation", "places_discovery",
            "budget_estimation", "weather_lookup"}
DataOps == {"flight_search", "hotel_recommendation", "places_discovery"}

\* the resource a data tool searches, and the texts of its _run
ResourceOf(op) ==
  CASE op = "flight_search" -> FLIGHTS_PATH
    [] op = "hotel_recommendation" -> HOTELS_PATH
    [] op = "places_discovery" -> PLACES_PATH

GenericPrefix(op) ==
  CASE op = "flight_search" -> "Error searching flights: "
    [] op = "hotel_recommendation" -> "Error searching hotels: "
    [] op = "places_discovery" -> "Error searching places: "
    [] op = "budget_estimation" -> "Error calculating budget: "
    [] op = "weather_lookup" -> "Error fetching weather: "

RequiredText(op) ==
  CASE op = "flight_search" -> "Error: Both source and destination are required."
    [] op \in {"hotel_recommendation", "places_discovery"} -> "Error: City is required."
    [] op = "weather_lookup" -> "Error: Both city and start_date are required."

\* field key of request q is absent or a string
StrOrAbsent(q, key) == key \notin DOMAIN q.obj \/ q.obj[key].t = "str"
\* field key of request q is absent or a value Conv accepts
Converts(q, key, Conv(_)) == key \notin DOMAIN q.obj \/ Conv(q.obj[key]).exc = NoExc
\* field key of request q is absent or the empty string
Blank(q, key) == key \notin DOMAIN q.obj \/ q.obj[key] = JStr("")
\* field key of request q is absent, empty or white space
BlankOrSpace(q, key) ==
  key \notin DOMAIN q.obj \/ (q.obj[key].t = "str" /\ strip(q.obj[key].s) = "")

\* request q is a JSON object with a field of a type the tool cannot use
IllTyped(op, q) ==
  /\ q.json = "object"
  /\ CASE op = "flight_search" ->
            \E k \in {"source", "destination", "preference"} : ~StrOrAbsent(q, k)
       [] op = "hotel_recommendation" ->
            ~StrOrAbsent(q, "city") \/ ~Converts(q, "min_rating", IntOf)
       [] op = "places_discovery" ->
            \/ ~StrOrAbsent(q, "city") \/ ~StrOrAbsent(q, "category")
            \/ ~Converts(q, "min_rating", FloatOf)
       [] op = "budget_estimation" ->
            \/ \E k \in {"flight_price", "hotel_price_per_night", "daily_expense"} :
                  ~Converts(q, k, FloatOf)
            \/ ~Converts(q, "num_nights", IntOf)
       [] op = "weather_lookup" ->
            \/ ~StrOrAbsent(q, "city") \/ ~StrOrAbsent(q, "start_date")
            \/ ~Converts(q, "num_days", IntOf)

\* request q is a JSON object that lacks a field the tool requires
MissingRequired(op, q) ==
  /\ q.json = "object"
  /\ CASE op = "flight_search" -> BlankOrSpace(q, "source") \/ BlankOrSpace(q, "destination")
       [] op \in {"hotel_recommendation", "places_discovery"} -> Blank(q, "city")
       [] op = "weather_lookup" -> Blank(q, "city") \/ Blank(q, "start_date")
       [] op = "budget_estimation" -> FALSE

\* request q gets as far as the tool's load_json call
ReachesLoad(op, q) ==
  op \in DataOps /\ q.json = "object" /\ ~IllTyped(op, q) /\ ~MissingRequired(op, q)

\* the ways an invocation fails: input that is no JSON or no object, a field of
\* the wrong type, a resource that does not load, a service that does not answer
Fails(r) ==
  \/ r.query.json \in {"invalid", "nonobject"}
  \/ IllTyped(r.op, r.query)
  \/ ReachesLoad(r.op, r.query) /\ doc[ResourceOf(r.op)].kind # "array"
  \/ r.op = "weather_lookup" /\ r.http > 0 /\ r.response.kind # "ok"

\* C1: each of the five tools returns text and lets no exception out, and the
\* text of an invocation that fails (input that is not JSON or not an object,
\* an ill-typed field, a load failure, a remote failure) begins with "Error".
C1_ReturnsTextAndErrorOnFailure ==
  res.op \in ToolOps =>
    /\ res.exc = NoExc
    /\ res.report.text # ""
    /\ Fails(res) => startswith(res.report.text, "Error")

\* an ill-typed field answered with the flight tool's error text
C1_Witness ==
  /\ res.op = "flight_search"
  /\ IllTyped(res.op, res.query)
  /\ res.exc = NoExc
  /\ res.report.text = "Error searching flights: 'int' object has no attribute 'strip'"

\* C2: a step of any tool on input that is not JSON returns the invalid-format
\* text, which begins with "Error", reads no document, leaves the cache as it
\* was and makes no HTTP request.
C2_InvalidJsonLoadsNothing ==
  [][ (res'.op \in ToolOps /\ res'.query = InvalidQuery) =>
        /\ res'.exc = NoExc
        /\ startswith(res'.report.text, "Error: Invalid JSON format.")
        /\ res'.read = {}
        /\ res'.http = 0
        /\ cache' = cache ]_vars

\* the weather tool refusing input that is not JSON, after resources were loaded
C2_Witness ==
  /\ res.op = "weather_lookup"
  /\ res.query = InvalidQuery
  /\ res.report.text = "Error: Invalid JSON format."
  /\ res.read = {} /\ res.http = 0
  /\ cache # EmptyCache

\* C3 as stated: a request that lacks a required field gets the field's
\* "required" text, with no document read and no HTTP request.
C3_MissingFieldAlwaysRequiredText ==
  (res.op \in ToolOps /\ MissingRequired(res.op, res.query)) =>
    /\ res.report.text = RequiredText(res.op)
    /\ res.read = {}
    /\ res.http = 0

\* C3, amended: a request that lacks a required field gets the field's
\* "required" text when its other fields have types the tool converts, and the
\* tool's generic error text otherwise; either way before any document is
\* read or any HTTP request is made.
C3_MissingFieldChecked ==
  (res.op \in ToolOps /\ MissingRequired(res.op, res.query)) =>
    /\ res.exc = NoExc
    /\ res.read = {}
    /\ res.http = 0
    /\ IF IllTyped(res.op, res.query)
       THEN startswith(res.report.text, GenericPrefix(res.op))
       ELSE res.report.text = RequiredText(res.op)

\* a flight request without a source, refused although flights.json is absent
C3_Witness ==
  /\ res.op = "flight_search"
  /\ MissingRequired(res.op, res.query)
  /\ "destination" \in DOMAIN res.query.obj
  /\ ~IllTyped(res.op, res.query)
  /\ doc[FLIGHTS_PATH] = AbsentDoc
  /\ res.report.text = "Error: Both source and destination are required."

\* a request the data tool can serve: it reaches the load, and a hotel price
\* ceiling, if given, is a number
WellFormedRequest(op, q) ==
  /\ ReachesLoad(op, q)
  /\ op = "hotel_recommendation" =>
       \/ "max_price_per_night" \notin DOMAIN q.obj
       \/ IsNumber(q.obj["max_price_per_night"])

\* the tool's resource is the array of well-formed records
WellFormedResource(op) ==
  doc[ResourceOf(op)] =
    CASE op = "flight_search" -> FlightsDoc
      [] op = "hotel_recommendation" -> HotelsDoc
      [] op = "places_discovery" -> PlacesDoc

NothingFoundPrefix(op) ==
  CASE op = "flight_search" -> "No flights found"
    [] op = "hotel_recommendation" -> "No hotels found"
    [] op = "places_discovery" -> "No places found"

\* the records of flights.json on the route a request names, compared without
\* regard to case
OnRoute(q) ==
  LET recs == doc[FLIGHTS_PATH].recs
      source == lower(strip(q.obj["source"].s))
      destination == lower(strip(q.obj["destination"].s))
  IN  {i \in 1..Len(recs) : /\ lower(recs[i]["from"].s) = source
                            /\ lower(recs[i]["to"].s) = destination}

\* C4: a well-formed request over a loadable, well-formed resource is answered
\* "Found N ..." with options or "No ... found" without, never with a text that
\* begins with "Error"; a flight request that no record matches is answered
\* "No flights found".
C4_FoundOrNothingFound ==
  (res.op \in DataOps /\ WellFormedRequest(res.op, res.query) /\ WellFormedResource(res.op)) =>
    /\ res.exc = NoExc
    /\ ~startswith(res.report.text, "Error")
    /\ \/ startswith(res.report.text, "Found ") /\ res.report.options # <<>>
       \/ startswith(res.report.text, NothingFoundPrefix(res.op)) /\ res.report.options = <<>>
    /\ (res.op = "flight_search" /\ OnRoute(res.query) = {}) =>
         startswith(res.report.text, "No flights found")

\* hotels of the city exist, none passes the rating filter
C4_Witness ==
  /\ res.op = "hotel_recommendation"
  /\ WellFormedRequest(res.op, res.query)
  /\ WellFormedResource(res.op)
  /\ res.report.text = "No hotels found in Goa matching your criteria."

\* C5: a load_json step on a path the cache holds returns the cached value,
\* reads no document and leaves the cache as it was, whatever the document has
\* become since it was loaded.
C5_CachedLoadReadsNothing ==
  [][ (res'.op = "load_json" /\ res'.path \in DOMAIN cache /\ HasLen(cache[res'.path])) =>
        /\ res'.exc = NoExc
        /\ res'.data = cache[res'.path]
        /\ res'.read = {}
        /\ cache' = cache ]_vars

\* flights served from the cache after flights.json was removed
C5_Witness ==
  /\ res.op = "load_json"
  /\ res.path = FLIGHTS_PATH
  /\ res.exc = NoExc
  /\ res.read = {}
  /\ res.data = FlightsDoc
  /\ doc[FLIGHTS_PATH] = AbsentDoc

\* C6: a load_json step on a path the cache does not hold fails with
\* FileNotFoundError when the document is absent and with JSONDecodeError when
\* it is not JSON; in both cases the cache stays as it was, so that the path is
\* still uncached and the next call tries again.
C6_FailedLoadLeavesCache ==
  [][ (res'.op = "load_json" /\ res'.path \notin DOMAIN cache
       /\ doc[FileOf(res'.path)].kind \in {"absent", "garbage"}) =>
        /\ res'.exc.exc = (IF doc[FileOf(res'.path)].kind = "absent"
                           THEN "FileNotFoundError" ELSE "JSONDecodeError")
        /\ (doc[FileOf(res'.path)].kind = "garbage" => res'.read = {FileOf(res'.path)})
        /\ cache' = cache
        /\ res'.path \notin DOMAIN cache' ]_vars

\* a parse failure on flights.json while the hotels stay cached
C6_Witness ==
  /\ res.op = "load_json"
  /\ res.path = FLIGHTS_PATH
  /\ res.exc.exc = "JSONDecodeError"
  /\ doc[FLIGHTS_PATH] = GarbageDoc
  /\ DOMAIN cache = {HOTELS_PATH}

\* C7 as stated: a search that finds its resource missing ends in an exception
\* that leaves the tool invocation.
C7_MissingResourcePropagates ==
  (ReachesLoad(res.op, res.query) /\ doc[ResourceOf(res.op)] = AbsentDoc) =>
    res.exc.exc = "FileNotFoundError"

\* C7, amended: a search that finds its resource missing lets no exception out;
\* it returns the tool's error text with load_json's "Data file not found"
\* message, and caches nothing for the resource.
C7_MissingResourceReported ==
  (ReachesLoad(res.op, res.query) /\ doc[ResourceOf(res.op)] = AbsentDoc) =>
    /\ res.exc = NoExc
    /\ res.report.text =
         GenericPrefix(res.op) \o "Data file not found: " \o ResourceOf(res.op)
    /\ ResourceOf(res.op) \notin DOMAIN cache

\* a place search while places.json is missing
C7_Witness ==
  /\ res.op = "places_discovery"
  /\ ReachesLoad(res.op, res.query)
  /\ doc[PLACES_PATH] = AbsentDoc
  /\ res.report.text = "Error searching places: Data file not found: data/places.json"

\* C8: every cached array holds exactly the records parsed from its document;
\* no tool adds, changes or removes a field.
C8_CachedRecordsAsParsed ==
  \A path \in DOMAIN cache : cache[path] = json_load(doc[FileOf(path)])

\* the report of request q by tool op when nothing has been invoked before
FirstReport(op, q) ==
  CASE op = "flight_search" -> FlightSearchTool_run(q, EmptyCache, doc).report
    [] op = "hotel_recommendation" -> HotelRecommendationTool_run(q, EmptyCache, doc).report
    [] op = "places_discovery" -> PlacesDiscoveryTool_run(q, EmptyCache, doc).report
    [] op = "budget_estimation" -> BudgetEstimationTool_run(q, EmptyCache).report

\* C9: with the resources fixed, the report of a flight, hotel, place or budget
\* invocation depends on its input alone: it is the report the same input gets
\* when nothing was invoked before.
C9_ReportDependsOnInputOnly ==
  res.op \in DataOps \cup {"budget_estimation"} => res.report = FirstReport(res.op, res.query)

\* C10: a flight search that completes counts in its header exactly the records
\* whose origin and destination equal the requested ones without regard to
\* case, and lists only such records, three of them at most.
C10_FlightMatchesRoute ==
  (/\ res.op = "flight_search"
   /\ ReachesLoad(res.op, res.query)
   /\ doc[FLIGHTS_PATH].kind = "array"
   /\ ~startswith(res.report.text, "Error")) =>
    LET recs == doc[FLIGHTS_PATH].recs
        matching == OnRoute(res.query)
        source == strip(res.query.obj["source"].s)
        destination == strip(res.query.obj["destination"].s)
    IN  IF matching = {}
        THEN res.report = Text(NoFlightsText(source, destination))
        ELSE /\ res.report.text = "Found " \o ToString(Cardinality(matching))
                                  \o " flights from " \o source \o " to " \o destination \o "."
             /\ Len(res.report.options) = Min(TOP_FLIGHTS, Cardinality(matching))
             /\ \A r \in 1..Len(res.report.options) :
                  \E i \in matching : res.report.options[r] = FlightOption(WithDuration(recs[i]))

\* four records on the route, one of them spelt in another case
C10_Witness ==
  /\ res.op = "flight_search"
  /\ doc[FLIGHTS_PATH] = FlightsDoc
  /\ res.query = FlightRequest(JStr(" delhi "), JStr("Goa"), Absent)
  /\ Cardinality(OnRoute(res.query)) = 4
  /\ res.report.text = "Found 4 flights from delhi to Goa."

\* the preference a flight request asks for
RequestedPreference(q) ==
  IF "preference" \in DOMAIN q.obj THEN lower(q.obj["preference"].s) ELSE "cheapest"

\* the number a flight record is ordered by: its duration in tenths of an hour
\* for "fastest", its price otherwise
FlightOrderKey(rec, preference) ==
  IF preference = "fastest" THEN Tenths(WithDuration(rec)["duration_hours"])
  ELSE Tenths(rec["price"])

\* C11: a flight report lists the first min(3, n) of the n matching records by
\* ascending price, or by ascending duration when the preference is fastest;
\* records with equal keys stand in the order of the resource.
C11_FlightsOrderedTopThree ==
  (/\ res.op = "flight_search"
   /\ ReachesLoad(res.op, res.query)
   /\ doc[FLIGHTS_PATH].kind = "array"
   /\ startswith(res.report.text, "Found ")) =>
    LET recs == doc[FLIGHTS_PATH].recs
        matching == OnRoute(res.query)
        preference == RequestedPreference(res.query)
        Key(i) == FlightOrderKey(recs[i], preference)
        Earlier(j, i) == Key(j) < Key(i) \/ (Key(j) = Key(i) /\ j < i)
    IN  /\ Len(res.report.options) = Min(TOP_FLIGHTS, Cardinality(matching))
        /\ \A r \in 1..Len(res.report.options) :
             \E i \in matching :
               /\ res.report.options[r] = FlightOption(WithDuration(recs[i]))
               /\ Cardinality({j \in matching : Earlier(j, i)}) = r - 1

\* the cheapest three of four flights, two of them at the same price
C11_Witness ==
  /\ res.op = "flight_search"
  /\ doc[FLIGHTS_PATH] = FlightsDoc
  /\ res.query = FlightRequest(JStr("Delhi"), JStr("Goa"), JStr("cheapest"))
  /\ Len(res.report.options) = 3
  /\ res.report.options[1].flight_id = "F5"
  /\ res.report.options[2].flight_id = "F1"
  /\ res.report.options[3].flight_id = "F2"

\* the records of hotels.json in the city a request names
InCity(q) ==
  LET recs == doc[HOTELS_PATH].recs
      city == lower(strip(q.obj["city"].s))
  IN  {i \in 1..Len(recs) : recs[i]["city"].t = "str" /\ lower(recs[i]["city"].s) = city}

\* the minimum rating a hotel request asks for, in tenths of a star
RequestedStars(q) ==
  IF "min_rating" \in DOMAIN q.obj THEN FloatOf(q.obj["min_rating"]).n
  ELSE 10 * DEFAULT_MIN_STARS

\* the hotel report counts m hotels
HotelsCounted(m) ==
  res.report.text = "Found " \o ToString(m) \o " hotels in "
                    \o strip(res.query.obj["city"].s) \o " (showing top 3)."

C13_HotelsWithinCeiling ==
  (/\ res.op = "hotel_recommendation"
   /\ WellFormedRequest(res.op, res.query)
   /\ "max_price_per_night" \in DOMAIN res.query.obj
   /\ doc[HOTELS_PATH].kind = "array"
   /\ startswith(res.report.text, "Found ")) =>
    LET recs == doc[HOTELS_PATH].recs
        ceiling == Tenths(res.query.obj["max_price_per_night"])
        priced == {i \in InCity(res.query) :
                     Tenths(recs[i]["price_per_night"]) <= ceiling}
    IN  /\ \E m \in 0..Cardinality(priced) : HotelsCounted(m)
        /\ \A r \in 1..Len(res.report.options) :
             \E i \in priced : res.report.options[r] = HotelOption(recs[i])

\* the hotels the tool counts for a request: those of the city that pass the
\* rating and price filters as the tool applies them (C12 and C13 say how the
\* applied filters relate to the request)
HotelsKept(q) ==
  LET recs == doc[HOTELS_PATH].recs
      stars == IF "min_rating" \in DOMAIN q.obj THEN 10 * IntOf(q.obj["min_rating"]).n
               ELSE 10 * DEFAULT_MIN_STARS
      capped == /\ "max_price_per_night" \in DOMAIN q.obj
                /\ IsNumber(q.obj["max_price_per_night"])
                /\ q.obj["max_price_per_night"].n # 0
  IN  {i \in InCity(q) :
         /\ Tenths(recs[i]["stars"]) >= stars
         /\ capped => Tenths(recs[i]["price_per_night"])
                        <= Tenths(q.obj["max_price_per_night"])}

RequestedCategory(q) ==
  IF "category" \in DOMAIN q.obj THEN lower(strip(q.obj["category"].s)) ELSE ""
RequestedRating(q) ==
  IF "min_rating" \in DOMAIN q.obj THEN FloatOf(q.obj["min_rating"]).n
  ELSE DEFAULT_MIN_RATING

\* the records of places.json a request asks for
PlacesAsked(q) ==
  LET recs == doc[PLACES_PATH].recs
      city == lower(strip(q.obj["city"].s))
      category == RequestedCategory(q)
  IN  {i \in 1..Len(recs) :
         /\ lower(recs[i]["city"].s) = city
         /\ category # "" => lower(recs[i]["type"].s) = category
         /\ IsNumber(recs[i]["rating"])
         /\ Tenths(recs[i]["rating"]) >= RequestedRating(q)}

\* C15: a place search that completes matches exactly the records of the
\* requested city (whatever the case), of the requested category (whatever the
\* case) when one is given, and rated at least the minimum rating (3.5 when
\* none is given): the header counts all of them and only they are listed.
C15_PlacesMatchRequest ==
  (/\ res.op = "places_discovery"
   /\ ReachesLoad(res.op, res.query)
   /\ doc[PLACES_PATH].kind = "array"
   /\ ~startswith(res.report.text, "Error")) =>
    LET recs == doc[PLACES_PATH].recs
        asked == PlacesAsked(res.query)
        city == strip(res.query.obj["city"].s)
        category == RequestedCategory(res.query)
    IN  IF asked = {}
        THEN startswith(res.report.text, "No places found in " \o city)
             /\ res.report.options = <<>>
        ELSE /\ res.report.text =
                  "Found " \o ToString(Cardinality(asked)) \o " places in " \o city
                  \o (IF category # "" THEN " (" \o category \o ")" ELSE "")
                  \o " (showing top 5)."
             /\ Len(res.report.options) = Min(TOP_PLACES, Cardinality(asked))
             /\ \A r \in 1..Len(res.report.options) :
                  \E i \in asked : res.report.options[r] = PlaceOption(recs[i])
             /\ Cardinality(asked) <= TOP_PLACES =>
                  \A i \in asked : \E r \in 1..Len(res.report.options) :
                    res.report.options[r] = PlaceOption(recs[i])

\* the two Goa beaches, spelt in different cases, asked for as " beach "
C15_Witness ==
  /\ res.op = "places_discovery"
  /\ doc[PLACES_PATH] = PlacesDoc
  /\ res.query = PlaceRequest(JStr("Goa"), JStr(" beach "), Absent)
  /\ Cardinality(PlacesAsked(res.query)) >= 2
  /\ startswith(res.report.text, "Found ")
  /\ Len(res.report.options) >= 2

\* C16: a place report lists the first min(5, n) of the n matching places by
\* descending rating; places of equal rating stand in the order of the
\* resource.
C16_PlacesOrderedTopFive ==
  (/\ res.op = "places_discovery"
   /\ ReachesLoad(res.op, res.query)
   /\ doc[PLACES_PATH].kind = "array"
   /\ startswith(res.report.text, "Found ")) =>
    LET recs == doc[PLACES_PATH].recs
        asked == PlacesAsked(res.query)
        Rating(i) == Tenths(recs[i]["rating"])
        Earlier(j, i) == Rating(j) > Rating(i) \/ (Rating(j) = Rating(i) /\ j < i)
    IN  /\ Len(res.report.options) = Min(TOP_PLACES, Cardinality(asked))
        /\ \A r \in 1..Len(res.report.options) :
             \E i \in asked :
               /\ res.report.options[r] = PlaceOption(recs[i])
               /\ Cardinality({j \in asked : Earlier(j, i)}) = r - 1

\* more than five Goa places: the best five are listed, two pairs of equal
\* rating among them in the order of the resource
C16_Witness ==
  /\ res.op = "places_discovery"
  /\ doc[PLACES_PATH] = PlacesDoc
  /\ res.query = PlaceRequest(JStr("Goa"), Absent, Absent)
  /\ Cardinality(PlacesAsked(res.query)) > TOP_PLACES
  /\ Len(res.report.options) = TOP_PLACES
  /\ res.report.options[1].place_id = "P6"
  /\ res.report.options[2].place_id = "P1"
  /\ res.report.options[3].place_id = "P3"
  /\ res.report.options[4].place_id = "P2"
  /\ res.report.options[5].place_id = "P7"

\* the amounts of a budget request in tenths, its night count, and the daily
\* expense that applies: the request's, or the configured 2000
AmountOf(q, key) == IF key \in DOMAIN q.obj THEN FloatOf(q.obj[key]).n ELSE 0
NightsOf(q) == IF "num_nights" \in DOMAIN q.obj THEN IntOf(q.obj["num_nights"]).n ELSE 1
DailyOf(q) ==
  IF "daily_expense" \in DOMAIN q.obj THEN FloatOf(q.obj["daily_expense"]).n
  ELSE 10 * DEFAULT_DAILY_EXPENSE

\* C17: the figures of a budget report and of calculate_budget are
\* hotel_total = nightly price x nights, incidental total = daily expense x
\* (nights + 1) and total = flight price + hotel total + incidental total, the
\* daily expense being 2000 when the request omits it; the helper's figures
\* are those of the tool's report on the same numbers.
C17_BudgetFormula ==
  (/\ res.op \in {"budget_estimation", "calculate_budget"}
   /\ res.query.json = "object"
   /\ ~IllTyped("budget_estimation", res.query)) =>
    LET q == res.query
        b == res.report.options[1]
        nightly == AmountOf(q, "hotel_price_per_night")
    IN  /\ Len(res.report.options) = 1
        /\ b.flight_cost = AmountOf(q, "flight_price")
        /\ b.hotel_cost = nightly * NightsOf(q)
        /\ b.food_travel_cost = DailyOf(q) * (NightsOf(q) + 1)
        /\ b.total_cost = AmountOf(q, "flight_price") + nightly * NightsOf(q)
                          + DailyOf(q) * (NightsOf(q) + 1)
        /\ res.op = "calculate_budget" =>
             LET t == BudgetEstimationTool_run(q, cache).report.options[1]
             IN  /\ b.hotel_cost = t.hotel_cost
                 /\ b.food_travel_cost = t.food_travel_cost
                 /\ b.total_cost = t.total_cost

\* flight 4800, nightly 3200, 4 nights, daily 2000: 12800, 10000 and 27600
C17_Witness ==
  /\ res.op = "budget_estimation"
  /\ res.query = BudgetRequest(JInt(4800), JInt(3200), JInt(4), JInt(2000))
  /\ res.report.options[1].hotel_cost = 128000
  /\ res.report.options[1].food_travel_cost = 100000
  /\ res.report.options[1].total_cost = 276000
  /\ res.report.options[1].total_text = "27,600"

\* C18: get_weather_condition gives every pair of readings exactly one label,
\* by strict comparisons in a fixed priority: rainy above 10 mm, else light
\* rain above 2 mm, else windy above 30 km/h, else breezy above 15 km/h, else
\* clear; precipitation above 2 mm decides whatever the wind.
C18_ConditionByPriority ==
  res.op = "get_weather_condition" =>
    LET precipitation == res.query.obj["precipitation"].n
        windspeed == res.query.obj["windspeed"].n
        label == res.report.text
    IN  /\ label \in {"Rainy", "Light Rain", "Windy", "Breezy", "Clear/Sunny"}
        /\ label = "Rainy" <=> precipitation > 100
        /\ label = "Light Rain" <=> (precipitation > 20 /\ precipitation <= 100)
        /\ label = "Windy" <=> (precipitation <= 20 /\ windspeed > 300)
        /\ label = "Breezy" <=> (precipitation <= 20 /\ windspeed > 150 /\ windspeed <= 300)
        /\ label = "Clear/Sunny" <=> (precipitation <= 20 /\ windspeed <= 150)

\* 5 mm of rain in a 40 km/h wind is light rain
C18_Witness ==
  /\ res.op = "get_weather_condition"
  /\ res.query = Reading(50, 400)
  /\ res.report.text = "Light Rain"

\* a weather request that passes the conversions and the required-field check
WeatherAsked(r) ==
  /\ r.op = "weather_lookup"
  /\ r.query.json = "object"
  /\ ~IllTyped(r.op, r.query)
  /\ ~MissingRequired(r.op, r.query)

\* C19: a weather lookup for a city that the coordinate table lacks, letter
\* case ignored, returns the "Coordinates not found" error text, raises nothing
\* and makes no HTTP request; a city of the table in any case is looked up.
C19_UnknownCityNoRequest ==
  WeatherAsked(res) =>
    LET city == strip(res.query.obj["city"].s)
        notFound == "Error: Coordinates not found for " \o city
                    \o ". Please check the city name."
    IN  IF lower(city) \in DOMAIN CITY_COORDINATES
        THEN res.report.text # notFound
        ELSE /\ res.exc = NoExc
             /\ res.report = Text(notFound)
             /\ res.http = 0

\* Atlantis is in no table
C19_Witness ==
  /\ WeatherAsked(res)
  /\ res.query = WeatherRequest(JStr("Atlantis"), JStr("2025-02-15"), Absent)
  /\ res.report.text = "Error: Coordinates not found for Atlantis. Please check the city name."
  /\ res.http = 0

\* the weather service fails: no answer in time, a status that is no success,
\* a body that is no JSON, or a reading that is no number
ServiceFails(resp) ==
  \/ resp.kind \in {"timeout", "status", "notjson"}
  \/ /\ resp.kind = "ok"
     /\ \E metric \in {"temperature_2m_max", "temperature_2m_min",
                       "precipitation_sum", "windspeed_10m_max"} :
          \E i \in 1..Len(resp.time) :
            i <= Len(resp[metric]) /\ ~IsNumber(resp[metric][i])

\* C20: when the weather service fails, fetch_weather returns the empty list
\* and the weather tool returns the "Could not fetch weather data" error text;
\* no invocation makes more than one HTTP request.
C20_FetchFailureReported ==
  /\ res.http \in {0, 1}
  /\ (WeatherAsked(res) /\ res.http = 1 /\ ServiceFails(res.response)) =>
       LET city == strip(res.query.obj["city"].s)
           coords == CITY_COORDINATES[lower(city)]
           days == IF "num_days" \in DOMAIN res.query.obj
                   THEN IntOf(res.query.obj["num_days"]).n ELSE DEFAULT_NUM_DAYS
       IN  /\ fetch_weather(coords.latitude, coords.longitude,
                            strip(res.query.obj["start_date"].s), days,
                            res.response).list = <<>>
           /\ res.exc = NoExc
           /\ res.report = Text("Error: Could not fetch weather data for " \o city \o ".")

\* the one request of a lookup timed out
C20_Witness ==
  /\ WeatherAsked(res)
  /\ res.http = 1
  /\ res.response.kind = "timeout"
  /\ res.report.text = "Error: Could not fetch weather data for GOA."

\* C21: the cache has one entry per document: no two keys of the cache name
\* the same document, and a load_json step on a path whose document is cached
\* under any spelling reads nothing and leaves the cache as it was.
C21_CacheKeyedByResolvedPath ==
  [][ res'.op = "load_json" =>
        /\ \A j, k \in DOMAIN cache' : FileOf(j) = FileOf(k) => j = k
        /\ (\E k \in DOMAIN cache : FileOf(k) = FileOf(res'.path)) =>
              (res'.read = {} /\ cache' = cache) ]_vars

\* C22: two callers that are in load_json for the same path have not both
\* opened and parsed its document, and when both have returned without an
\* exception they hold the same object.
C22_ConcurrentLoadsReadOnce ==
  \A t, u \in Callers :
    (t # u /\ callers.at[t].pc # "idle" /\ callers.at[u].pc # "idle"
       /\ callers.at[t].path = callers.at[u].path) =>
      /\ ~(callers.at[t].read /\ callers.at[u].read)
      /\ (callers.at[t].pc = "done" /\ callers.at[u].pc = "done"
          /\ callers.at[t].exc = NoExc /\ callers.at[u].exc = NoExc) =>
            callers.at[t].obj = callers.at[u].obj

\* a flight record carries two timestamps that parse
Timed(rec) ==
  /\ get(rec, "departure_time", JStr("")).t = "str"
  /\ get(rec, "arrival_time", JStr("")).t = "str"
  /\ fromisoformat(get(rec, "departure_time", JStr("")).s).ok
  /\ fromisoformat(get(rec, "arrival_time", JStr("")).s).ok

\* arrival minus departure of a timed record, in seconds
Elapsed(rec) == fromisoformat(rec["arrival_time"].s).sec - fromisoformat(rec["departure_time"].s).sec

\* a flight search found flights in a well-formed flights.json
FlightsFound ==
  /\ res.op = "flight_search"
  /\ ReachesLoad(res.op, res.query)
  /\ doc[FLIGHTS_PATH].kind = "array"
  /\ startswith(res.report.text, "Found ")

\* the duration the search left on the i-th record, which the report shows
DurationUsed(i) == cache[FLIGHTS_PATH].recs[i]["duration_hours"]

\* what C23 says of the matches that have no usable timestamps: a precomputed
\* duration is kept, a record without one and without two parsable timestamps
\* gets 0, and in a search for the fastest no flight of positive duration is
\* listed unless every such record is listed before it
UntimedFirst(matching) ==
  LET recs == doc[FLIGHTS_PATH].recs
      untimed == {i \in matching : "duration_hours" \notin DOMAIN recs[i] /\ ~Timed(recs[i])}
  IN  /\ \A i \in matching :
           "duration_hours" \in DOMAIN recs[i] => DurationUsed(i) = recs[i]["duration_hours"]
      /\ \A i \in untimed : DurationUsed(i) = JInt(0)
      /\ RequestedPreference(res.query) = "fastest" =>
           \A r \in 1..Len(res.report.options) : \A j \in matching :
             (res.report.options[r].flight_id = recs[j]["flight_id"].s
              /\ Tenths(DurationUsed(j)) > 0) =>
               \A i \in untimed : \E k \in 1..(r - 1) :
                 res.report.options[k].flight_id = recs[i]["flight_id"].s

\* C23 as stated: a derived duration is exactly arrival minus departure, in
\* hours.
C23_DurationIsTimeDifference ==
  FlightsFound =>
    LET recs == doc[FLIGHTS_PATH].recs
        matching == OnRoute(res.query)
    IN  /\ UntimedFirst(matching)
        /\ \A i \in matching :
             ("duration_hours" \notin DOMAIN recs[i] /\ Timed(recs[i])) =>
               360 * Tenths(DurationUsed(i)) = Elapsed(recs[i])

\* C23, amended: a derived duration is arrival minus departure in hours rounded
\* to one decimal place, that is, the tenth of an hour nearest to the
\* difference; precomputed durations are kept, and records without two parsable
\* timestamps get 0 and come first in a search for the fastest.
C23_DurationRoundedToTenth ==
  FlightsFound =>
    LET recs == doc[FLIGHTS_PATH].recs
        matching == OnRoute(res.query)
    IN  /\ UntimedFirst(matching)
        /\ \A i \in matching :
             ("duration_hours" \notin DOMAIN recs[i] /\ Timed(recs[i])) =>
               LET d == 360 * Tenths(DurationUsed(i)) - Elapsed(recs[i])
               IN  DurationUsed(i).t = "float" /\ d <= 180 /\ 0 - d <= 180

\* the fastest flights Delhi to Goa: the one whose departure does not parse
\* first with 0 hours, then 1.5 hours and the precomputed 2.0 hours
C23_Witness ==
  /\ FlightsFound
  /\ doc[FLIGHTS_PATH] = FlightsDoc
  /\ res.query = FlightRequest(JStr("Delhi"), JStr("Goa"), JStr("Fastest"))
  /\ Len(res.report.options) = 3
  /\ res.report.options[1].flight_id = "F3" /\ res.report.options[1].duration = "0"
  /\ res.report.options[2].flight_id = "F5" /\ res.report.options[2].duration = "1.5"
  /\ res.report.options[3].flight_id = "F2" /\ res.report.options[3].duration = "2.0"

\* the flight back takes 2 h 27 min and is reported with 2.5 hours
C23_RoundedWitness ==
  /\ FlightsFound
  /\ res.query = FlightRequest(JStr("Goa"), JStr("Delhi"), Absent)
  /\ Len(res.report.options) = 1
  /\ res.report.options[1].duration = "2.5"

\* the number of days a weather request asks for
RequestedDays(q) ==
  IF "num_days" \in DOMAIN q.obj THEN IntOf(q.obj["num_days"]).n ELSE DEFAULT_NUM_DAYS

\* the days from 1 January of year 1 up to and including a date YYYY-MM-DD
DayNumber(date) ==
  LET year == Number(SubSeq(date, 1, 4))
      month == Number(SubSeq(date, 6, 7))
      day == Number(SubSeq(date, 9, 10))
      y == year - 1
      leap == (year % 4 = 0 /\ year % 100 # 0) \/ year % 400 = 0
      before == <<0, 31, 59, 90, 120, 151, 181, 212, 243, 273, 304, 334>>
  IN  365 * y + (y \div 4) - (y \div 100) + (y \div 400)
        + before[month] + (IF leap /\ month > 2 THEN 1 ELSE 0) + day

\* C24: a call of fetch_weather for num_days >= 1 days (7 when the request
\* names none) asks the service for the range that starts on the start date
\* and ends num_days - 1 days later: num_days consecutive days.
C24_RequestsInclusiveRange ==
  (res.op = "fetch_weather" /\ res.http = 1 /\ RequestedDays(res.query) >= 1) =>
    LET given == strptime(strip(res.query.obj["start_date"].s))
        first == res.request.start_date
        last == res.request.end_date
    IN  /\ Len(first) = 10 /\ Len(last) = 10
        /\ strptime(first) = given
        /\ DayNumber(last) - DayNumber(first) + 1 = RequestedDays(res.query)

\* a week from 30 December, asked for without num_days, ends on 5 January
C24_Witness ==
  /\ res.op = "fetch_weather"
  /\ res.query = WeatherRequest(JStr(" delhi "), JStr("2025-12-30"), Absent)
  /\ res.http = 1
  /\ res.request.start_date = "2025-12-30"
  /\ res.request.end_date = "2026-01-05"
  /\ Len(res.list) = 7

\* three days from 27 February 2024 end on 29 February
C24_LeapWitness ==
  /\ res.op = "fetch_weather"
  /\ res.query = WeatherRequest(JStr(" delhi "), JStr("2024-02-27"), JFloat(39))
  /\ res.request.end_date = "2024-02-29"

\* C25: when the service answers with arrays of numbers, fetch_weather returns
\* one entry per date of the answer, in the answer's order; a day for which a
\* temperature array has no element has temperature None, a day for which the
\* precipitation or wind array has no element has 0 there, and a day with
\* neither of the two is reported clear.  The tool's report lists these
\* entries.
C25_ShortArraysFilledPerDay ==
  (res.op = "fetch_weather" /\ res.http = 1 /\ res.response.kind = "ok") =>
    LET a == res.response IN
    /\ Len(res.list) = Len(a.time)
    /\ res.report.options = res.list
    /\ \A i \in 1..Len(a.time) :
         LET day == res.list[i] IN
         /\ day.date = a.time[i]
         /\ (i > Len(a.temperature_2m_max) => day.temp_max = "None")
         /\ (i > Len(a.temperature_2m_min) => day.temp_min = "None")
         /\ (i <= Len(a.temperature_2m_max) => day.temp_max # "None")
         /\ day.precipitation =
              (IF i > Len(a.precipitation_sum) THEN JInt(0) ELSE a.precipitation_sum[i])
         /\ day.windspeed =
              (IF i > Len(a.windspeed_10m_max) THEN JInt(0) ELSE a.windspeed_10m_max[i])
         /\ (i > Len(a.precipitation_sum) /\ i > Len(a.windspeed_10m_max)) =>
              day.condition = "Clear/Sunny"

\* two days of which the second has no minimum temperature, no precipitation
\* and no wind speed
C25_Witness ==
  /\ res.op = "fetch_weather"
  /\ res.response.kind = "ok"
  /\ Len(res.response.time) = 2
  /\ Len(res.response.temperature_2m_max) = 2
  /\ Len(res.response.temperature_2m_min) = 0
  /\ Len(res.response.precipitation_sum) = 1
  /\ Len(res.response.windspeed_10m_max) = 1
  /\ Len(res.list) = 2
  /\ res.list[1].condition = "Rainy"
  /\ res.list[2].temp_max = "30" /\ res.list[2].temp_min = "None"
  /\ res.list[2].precipitation = JInt(0) /\ res.list[2].condition = "Clear/Sunny"

\* C26: a budget report carries the book-in-advance tip exactly when the total
\* is above 30000, the away-from-hotspots tip exactly when the nightly hotel
\* price is above 4000, and the two general tips always.
C26_TipsByThreshold ==
  (/\ res.op = "budget_estimation"
   /\ res.query.json = "object"
   /\ ~IllTyped("budget_estimation", res.query)) =>
    LET q == res.query
        b == res.report.options[1]
        total == AmountOf(q, "flight_price")
                   + AmountOf(q, "hotel_price_per_night") * NightsOf(q)
                   + DailyOf(q) * (NightsOf(q) + 1)
    IN  /\ res.report.text = "Budget Breakdown"
        /\ b.advance_tip <=> (total > 300000)
        /\ b.hotspot_tip <=> (AmountOf(q, "hotel_price_per_night") > 40000)
        /\ b.transport_tip
        /\ b.eateries_tip

\* a total of exactly 30000 at 3200 a night: the two general tips only
C26_Witness ==
  /\ res.op = "budget_estimation"
  /\ res.query = BudgetRequest(JInt(7200), JInt(3200), JInt(4), JInt(2000))
  /\ res.report.options[1].total_cost = 300000
  /\ ~res.report.options[1].advance_tip
  /\ ~res.report.options[1].hotspot_tip
  /\ res.report.options[1].transport_tip
  /\ res.report.options[1].eateries_tip

\* a total of 30800 at exactly 4000 a night: the advance tip without the
\* hotspot tip
C26_AdvanceWitness ==
  /\ res.op = "budget_estimation"
  /\ res.query = BudgetRequest(JInt(4800), JInt(4000), JInt(4), Absent)
  /\ res.report.options[1].advance_tip
  /\ ~res.report.options[1].hotspot_tip

\* C27: a load_json step keeps every entry of the cache as it was and adds one
\* entry exactly when it is a successful load of a path the cache did not
\* hold; a failed or repeated load leaves the cache as it was; and
\* get_cache_info reports the number of entries, which is therefore the number
\* of distinct paths loaded successfully since the cache was last cleared.
C27_CacheGrowsBySuccessfulLoads ==
  [][ /\ res'.op = "load_json" =>
           /\ \A k \in DOMAIN cache : k \in DOMAIN cache' /\ cache'[k] = cache[k]
           /\ DOMAIN cache' =
                (IF res'.exc = NoExc THEN DOMAIN cache \cup {res'.path} ELSE DOMAIN cache)
      /\ res'.op = "get_cache_info" =>
           /\ res'.exc = NoExc
           /\ res'.report.options[1].cached_files = Cardinality(DOMAIN cache)
           /\ cache' = cache ]_vars

\* C28: clear_cache leaves the cache empty; while the cache is empty
\* get_cache_info reports 0 cached files and 0 records; and a load_json on the
\* empty cache, of whatever path, opens the document, returns what it holds
\* now and caches exactly that.
C28_ClearThenReload ==
  [][ /\ res'.op = "clear_cache" => DOMAIN cache' = {}
      /\ (res'.op = "get_cache_info" /\ DOMAIN cache = {}) =>
           /\ res'.exc = NoExc
           /\ res'.report.options[1].cached_files = 0
           /\ res'.report.options[1].total_records = 0
      /\ (res'.op = "load_json" /\ DOMAIN cache = {}
          /\ doc[FileOf(res'.path)].kind = "array") =>
           /\ res'.exc = NoExc
           /\ res'.read = {FileOf(res'.path)}
           /\ res'.data = json_load(doc[FileOf(res'.path)])
           /\ DOMAIN cache' = {res'.path}
           /\ cache'[res'.path] = res'.data ]_vars

\* the cache just cleared, with both resources on disk
C28_Witness ==
  /\ res.op = "clear_cache"
  /\ DOMAIN cache = {}
  /\ doc[FLIGHTS_PATH] = FlightsDoc
  /\ doc[HOTELS_PATH] = HotelsDoc

\* C29: filter_data returns, in the order of the input, exactly the items that
\* have, for every criterion whose value is not None, the criterion's key with
\* a value whose text equals the criterion's text without regard to case; a
\* criterion with value None excludes nothing, and no criterion at all gives
\* back the input.
C29_FilterKeepsMatchingInOrder ==
  res.op = "filter_data" =>
    LET data == res.data
        filters == res.filters
        applied == {k \in DOMAIN filters : filters[k] # JNull}
        keep == {i \in 1..Len(data) :
                   \A k \in applied :
                     k \in DOMAIN data[i] /\ lower(Str(data[i][k])) = lower(Str(filters[k]))}
    IN  /\ Len(res.result) = Cardinality(keep)
        /\ \A i \in keep : res.result[Cardinality({j \in keep : j < i}) + 1] = data[i]
        /\ applied = {} => res.result = data

\* an int and a float rating of the same city told apart, the case of the city
\* ignored: of four records, the first and the last are kept
C29_Witness ==
  /\ res.op = "filter_data"
  /\ Len(res.data) = 4
  /\ res.filters = Object([city |-> JStr("Goa"), stars |-> JInt(5)])
  /\ res.result = << res.data[1], res.data[4] >>
  /\ res.data[1]["city"] = JStr("goa")

(***************************************************************************)
(* C30: plan_trip never raises.  When building the query or running the    *)
(* executor fails, it returns success False with the text of the error, an *)
(* empty itinerary and no intermediate steps, and the executor is not run  *)
(* after a query that could not be built; otherwise it returns success     *)
(* True with the executor's output and intermediate steps (empty when the  *)
(* executor gave none) and the query it was given.                         *)
(***************************************************************************)
TripFailure ==
  LET built == _build_query("Delhi", "Goa", "2025-02-15", res.num_days,
                            res.budget, res.preferences)
  IN  IF built.exc # NoExc THEN built.exc ELSE res.ran.exc

C30_PlanTripNeverRaises ==
  res.op = "plan_trip" =>
    /\ res.outcome.escaped = NoExc
    /\ IF TripFailure # NoExc
       THEN /\ res.outcome.result =
                 [success |-> FALSE, error |-> TripFailure.msg,
                  itinerary |-> "", intermediate_steps |-> <<>>]
            /\ res.outcome.invoked = (IF TripFailure = res.ran.exc THEN 1 ELSE 0)
       ELSE /\ DOMAIN res.outcome.result =
                 {"success", "itinerary", "intermediate_steps", "query"}
            /\ res.outcome.result.success = TRUE
            /\ res.outcome.result.itinerary =
                 (IF "output" \in DOMAIN res.ran.result
                  THEN res.ran.result.output ELSE "")
            /\ res.outcome.result.intermediate_steps =
                 (IF "intermediate_steps" \in DOMAIN res.ran.result
                  THEN res.ran.result.intermediate_steps ELSE <<>>)
            /\ res.outcome.result.query = res.outcome.input.input
            /\ res.outcome.invoked = 1
            /\ SubSeq(res.outcome.result.query, 1, 13) = "Plan a " \o Str(res.num_days) \o "-day "

\* an executor that raises, answered with success False and the error's text
C30_Witness ==
  /\ res.op = "plan_trip"
  /\ res.ran.exc = ValueError("Rate limit reached for model")
  /\ res.outcome.invoked = 1
  /\ res.outcome.escaped = NoExc
  /\ res.outcome.result.success = FALSE
  /\ res.outcome.result.error = "Rate limit reached for model"

\* a query that cannot be built (a budget given as text), answered likewise
C30_BuildWitness ==
  /\ res.op = "plan_trip"
  /\ res.budget = JStr("50000")
  /\ res.outcome.invoked = 0
  /\ res.outcome.escaped = NoExc
  /\ res.outcome.result.success = FALSE
  /\ res.outcome.result.error = "Cannot specify ',' with 's'."

\* the trip of the module's own example, planned by an executor that answers
C30_SuccessWitness ==
  /\ res.op = "plan_trip"
  /\ res.outcome.result.success = TRUE
  /\ res.outcome.result.itinerary = "Day 1: Baga beach"
  /\ res.outcome.result.intermediate_steps = <<"search_flights", "search_hotels">>
  /\ res.budget = JInt(50000)
  /\ res.preferences.t = "dict"
  /\ "interests" \in DOMAIN res.preferences.obj

====
